---- MODULE Spec2Model ----
(***************************************************************************)
(* NeuraVis: the flat-buffer store of a feed-forward network               *)
(* (NeuralBuffers, src/src/nn_buffers.cpp) and the stage dispatcher that   *)
(* runs its forward pass on the GPU (NeuralCompute,                        *)
(* src/src/nn_compute.cpp), over a small model of the OpenGL server        *)
(* (buffer objects, program objects, shader-memory visibility).            *)
(*                                                                         *)
(* Indices are 0-based as in the C++ source; At(s, i) reads element i of   *)
(* a TLA+ sequence.  Activation and bias values are held in half-units     *)
(* (the float 1.0 is 2, -1.5 is -3), weights in units, so that every value *)
(* the XOR demo of main.cpp computes is an exact integer.                  *)
(***************************************************************************)
EXTENDS Integers, Sequences, FiniteSets, TLC

VARIABLES
    buffers,   \* the NeuralBuffers object (main.cpp:107): its private fields
    compute,   \* the NeuralCompute object (main.cpp:139): its private fields
    renderer,  \* the Renderer object (main.cpp:148): its private fields
    gl,        \* the OpenGL server: buffer objects, program objects
    glLog,     \* the GL commands issued by the latest call, in order
    last,      \* the latest call: its name, arguments and returned vector
    process,   \* "running", or "aborted" once a call has crashed the program
    host,      \* the locals of main's loop (main.cpp:189-197, 246-247, 301)
    context    \* the GLContext object (main.cpp:81) and the GLFW library under it

vars == <<buffers, compute, renderer, gl, glLog, last, process, host, context>>

(***************************************************************************)
(* Bounds of the model.                                                    *)
(***************************************************************************)
MaxLayers == 3        \* a topology has at most MaxLayers + 1 entries
MaxWidth == 2         \* a layer has 1..MaxWidth neurons

(***************************************************************************)
(* Program constants.                                                      *)
(***************************************************************************)
WorkGroupSize == 256      \* nn_compute.cpp:74, "must match shader local_size_x"
NumActivationTypes == 3   \* nn_buffers.h:26, 0=ReLU, 1=Sigmoid, 2=Tanh

At(s, i) == s[i + 1]

RECURSIVE SumSeq(_)
SumSeq(s) == IF s = <<>> THEN 0 ELSE s[1] + SumSeq(Tail(s))

Min(a, b) == IF a < b THEN a ELSE b

Max(a, b) == IF a < b THEN b ELSE a

(***************************************************************************)
(* NeuralBuffers::LayerInfo (nn_buffers.h:21-30).                          *)
(***************************************************************************)
LayerInfo(inSz, outSz, wOff, bOff, actType, inOff, outOff) ==
    [inputSize |-> inSz, outputSize |-> outSz,
     weightOffset |-> wOff, biasOffset |-> bOff,
     activationType |-> actType,
     inputOffset |-> inOff, outputOffset |-> outOff,
     padding |-> 0]

(***************************************************************************)
(* NeuralBuffers::computeOffsets (nn_buffers.cpp:44-83): the for loop,     *)
(* one iteration per recursion, with its running totals.  acc holds        *)
(* m_layerInfo, m_totalWeights, m_totalBiases and the local                *)
(* activationOffset.  The fields are uint32_t; within the bounds of this   *)
(* model every sum and product stays far below 2^32 and none wraps.        *)
(***************************************************************************)
\* Mutant: the weight total advances by inSz + outSz instead of inSz * outSz.
OffsetsStepSumWeights(topology, i, acc) ==
    LET inSz == At(topology, i)
        outSz == At(topology, i + 1)
        info == LayerInfo(inSz, outSz, acc.m_totalWeights, acc.m_totalBiases, 0,
                          acc.activationOffset, acc.activationOffset + inSz)
    IN  [m_layerInfo |-> Append(acc.m_layerInfo, info),
         m_totalWeights |-> acc.m_totalWeights + inSz + outSz,
         m_totalBiases |-> acc.m_totalBiases + outSz,
         activationOffset |-> acc.activationOffset + At(topology, i)]

\* Mutant: the activation offset advances by the layer's output width.
OffsetsStepAdvanceByOutput(topology, i, acc) ==
    LET inSz == At(topology, i)
        outSz == At(topology, i + 1)
        info == LayerInfo(inSz, outSz, acc.m_totalWeights, acc.m_totalBiases, 0,
                          acc.activationOffset, acc.activationOffset + inSz)
    IN  [m_layerInfo |-> Append(acc.m_layerInfo, info),
         m_totalWeights |-> acc.m_totalWeights + inSz * outSz,
         m_totalBiases |-> acc.m_totalBiases + outSz,
         activationOffset |-> acc.activationOffset + At(topology, i + 1)]

\* Mutant: the offset is advanced before the layer's record is built.
OffsetsStepAdvanceFirst(topology, i, acc) ==
    LET inSz == At(topology, i)
        outSz == At(topology, i + 1)
        advanced == acc.activationOffset + At(topology, i)
        info == LayerInfo(inSz, outSz, acc.m_totalWeights, acc.m_totalBiases, 0,
                          advanced, advanced + inSz)
    IN  [m_layerInfo |-> Append(acc.m_layerInfo, info),
         m_totalWeights |-> acc.m_totalWeights + inSz * outSz,
         m_totalBiases |-> acc.m_totalBiases + outSz,
         activationOffset |-> advanced]

OffsetsStep(topology, i, acc) ==
    LET inSz == At(topology, i)
        outSz == At(topology, i + 1)
        info == LayerInfo(inSz, outSz, acc.m_totalWeights, acc.m_totalBiases, 0,
                          acc.activationOffset, acc.activationOffset + inSz)
    IN  [m_layerInfo |-> Append(acc.m_layerInfo, info),
         m_totalWeights |-> acc.m_totalWeights + inSz * outSz,
         m_totalBiases |-> acc.m_totalBiases + outSz,
         activationOffset |-> acc.activationOffset + At(topology, i)]

RECURSIVE OffsetsLoop(_, _, _)
OffsetsLoop(topology, i, acc) ==
    IF i < Len(topology) - 1
    THEN OffsetsLoop(topology, i + 1, OffsetsStep(topology, i, acc))
    ELSE acc

computeOffsets(topology) ==
    OffsetsLoop(topology, 0,
                [m_layerInfo |-> <<>>, m_totalWeights |-> 0,
                 m_totalBiases |-> 0, activationOffset |-> 0])

(***************************************************************************)
(* The OpenGL server.                                                      *)
(*                                                                         *)
(* gl.buffers maps each live buffer name to its data store.  A data store  *)
(* written by a compute shader is incoherent until a barrier names the     *)
(* kind of access that follows (OpenGL 4.6, 7.13.2): data is the store as  *)
(* last written, ssboView what shader-storage accesses of a later dispatch *)
(* may still observe, updateView what glBufferSubData /                    *)
(* glGetBufferSubData may still observe.  The three are equal in a         *)
(* coherent store.                                                         *)
(***************************************************************************)
Coherent(d) == [data |-> d, ssboView |-> d, updateView |-> d]

GL(cmd, target, obj, n) == [cmd |-> cmd, target |-> target, obj |-> obj, n |-> n]

\* glGenBuffers / glCreateProgram: an unused name, the lowest as drivers give it.
FreshName(used) ==
    CHOOSE n \in 1..(Cardinality(used) + 1) :
        n \notin used /\ \A m \in 1..(n - 1) : m \in used

\* The values uninitialised device memory is seen to hold.
GarbageValues == {0, -1}

\* glBufferData(size, nullptr): a data store of n elements, contents undefined:
\* whatever the memory held, here the value g throughout.
UndefinedContents(n, g) == [k \in 1..n |-> g]

BufferData(server, name, d) ==
    [server EXCEPT !.buffers = (name :> Coherent(d)) @@ @]

DeleteBuffer(server, name) ==
    [server EXCEPT !.buffers = [b \in (DOMAIN @) \ {name} |-> @[b]]]

DataOf(server, name) ==
    IF name \in DOMAIN server.buffers THEN server.buffers[name].data ELSE <<>>

\* Element k (1-based) of s overwritten from values when offset < k <= offset + n.
Overwrite(s, offset, values) ==
    [k \in 1..Len(s) |->
        IF k > offset /\ k <= offset + Len(values) THEN values[k - offset] ELSE s[k]]

(***************************************************************************)
(* glBufferSubData(offset, values) on the buffer bound to the target.      *)
(* With no buffer bound (name 0) or a range outside the store the command  *)
(* is an error and writes nothing.  Where a shader write has not been made *)
(* visible to buffer updates (updateView differs from data) the command    *)
(* does not wait for it: either write may land last.  The result is the    *)
(* set of stores the command can leave.                                    *)
(***************************************************************************)
BufferSubData(server, name, offset, values) ==
    IF name \notin DOMAIN server.buffers
       \/ offset + Len(values) > Len(server.buffers[name].data)
    THEN {server}
    ELSE LET b == server.buffers[name]
             hostLast == Overwrite(b.data, offset, values)
             shaderLast == [k \in 1..Len(b.data) |->
                              IF b.updateView[k] # b.data[k] THEN b.data[k]
                              ELSE hostLast[k]]
         IN  {[server EXCEPT !.buffers[name] =
                  [data |-> d,
                   ssboView |-> Overwrite(b.ssboView, offset,
                                          SubSeq(d, offset + 1, offset + Len(values))),
                   updateView |-> Overwrite(b.updateView, offset,
                                            SubSeq(d, offset + 1, offset + Len(values)))]]
              : d \in {hostLast, shaderLast}}

(***************************************************************************)
(* glGetBufferSubData(offset, n) into a vector already resized to n        *)
(* (value-initialised: zeros).  Returns the pairs <<values read, server    *)
(* afterwards>>: without a buffer-update barrier the read may observe the  *)
(* store from before a shader's writes, or the writes; once it has         *)
(* observed them they stay visible.                                        *)
(***************************************************************************)
GetBufferSubData(server, name, offset, n) ==
    IF name \notin DOMAIN server.buffers
       \/ offset + n > Len(server.buffers[name].data)
    THEN {<<[k \in 1..n |-> 0], server>>}
    ELSE LET b == server.buffers[name]
         IN  {<<SubSeq(b.updateView, offset + 1, offset + n), server>>,
              <<SubSeq(b.data, offset + 1, offset + n),
                [server EXCEPT !.buffers[name].updateView = b.data]>>}

(***************************************************************************)
(* The latest call, as the caller sees it.                                 *)
(***************************************************************************)
Call(op, index, values, aux, ret) ==
    [op |-> op, index |-> index, values |-> values, aux |-> aux, ret |-> ret]

\* The three buffers of the store, as held by the server.
weightsBuf == DataOf(gl, buffers.m_weightsSSBO)

biasesBuf == DataOf(gl, buffers.m_biasesSSBO)

activationsBuf == DataOf(gl, buffers.m_activationsSSBO)

(***************************************************************************)
(* NeuralBuffers::cleanup (nn_buffers.cpp:224-237).                        *)
(***************************************************************************)
\* Mutant: the activation buffer is not deleted.
BuffersCleanupGLKeepingActivations(server, obj) ==
    LET s1 == IF obj.m_weightsSSBO # 0 THEN DeleteBuffer(server, obj.m_weightsSSBO) ELSE server
    IN  IF obj.m_biasesSSBO # 0 THEN DeleteBuffer(s1, obj.m_biasesSSBO) ELSE s1

BuffersCleanupGL(server, obj) ==
    LET s1 == IF obj.m_weightsSSBO # 0 THEN DeleteBuffer(server, obj.m_weightsSSBO) ELSE server
        s2 == IF obj.m_biasesSSBO # 0 THEN DeleteBuffer(s1, obj.m_biasesSSBO) ELSE s1
    IN  IF obj.m_activationsSSBO # 0 THEN DeleteBuffer(s2, obj.m_activationsSSBO) ELSE s2

BuffersCleanupLog(obj) ==
    (IF obj.m_weightsSSBO # 0
     THEN <<GL("glDeleteBuffers", "", obj.m_weightsSSBO, 1)>> ELSE <<>>)
    \o (IF obj.m_biasesSSBO # 0
        THEN <<GL("glDeleteBuffers", "", obj.m_biasesSSBO, 1)>> ELSE <<>>)
    \o (IF obj.m_activationsSSBO # 0
        THEN <<GL("glDeleteBuffers", "", obj.m_activationsSSBO, 1)>> ELSE <<>>)

BuffersCleanupObj(obj) ==
    [obj EXCEPT !.m_weightsSSBO = 0, !.m_biasesSSBO = 0, !.m_activationsSSBO = 0]

(***************************************************************************)
(* NeuralBuffers::createBuffers (nn_buffers.cpp:85-111): three buffers     *)
(* sized to the totals, contents undefined (one garbage value for the      *)
(* memory of all three).  The set of servers it can leave, with the names  *)
(* it generated.                                                           *)
(***************************************************************************)
\* Mutant: the activation buffer is sized by the bias total.
createBuffersBiasSized(server, obj) ==
    LET w == FreshName(DOMAIN server.buffers)
        b == FreshName(DOMAIN server.buffers \cup {w})
        a == FreshName(DOMAIN server.buffers \cup {w, b})
    IN  {[obj |-> [obj EXCEPT !.m_weightsSSBO = w, !.m_biasesSSBO = b,
                              !.m_activationsSSBO = a],
          server |-> BufferData(BufferData(BufferData(server, w,
                                   UndefinedContents(obj.m_totalWeights, g)),
                                   b, UndefinedContents(obj.m_totalBiases, g)),
                                   a, UndefinedContents(obj.m_totalBiases, g))]
         : g \in GarbageValues}

createBuffers(server, obj) ==
    LET w == FreshName(DOMAIN server.buffers)
        b == FreshName(DOMAIN server.buffers \cup {w})
        a == FreshName(DOMAIN server.buffers \cup {w, b})
    IN  {[obj |-> [obj EXCEPT !.m_weightsSSBO = w, !.m_biasesSSBO = b,
                              !.m_activationsSSBO = a],
          server |-> BufferData(BufferData(BufferData(server, w,
                                   UndefinedContents(obj.m_totalWeights, g)),
                                   b, UndefinedContents(obj.m_totalBiases, g)),
                                   a, UndefinedContents(obj.m_totalNeurons, g))]
         : g \in GarbageValues}

createBuffersLog(obj) ==
    <<GL("glGenBuffers", "", obj.m_weightsSSBO, 1),
      GL("glBindBuffer", "GL_SHADER_STORAGE_BUFFER", obj.m_weightsSSBO, 0),
      GL("glBufferData", "GL_SHADER_STORAGE_BUFFER", obj.m_weightsSSBO, obj.m_totalWeights),
      GL("glGenBuffers", "", obj.m_biasesSSBO, 1),
      GL("glBindBuffer", "GL_SHADER_STORAGE_BUFFER", obj.m_biasesSSBO, 0),
      GL("glBufferData", "GL_SHADER_STORAGE_BUFFER", obj.m_biasesSSBO, obj.m_totalBiases),
      GL("glGenBuffers", "", obj.m_activationsSSBO, 1),
      GL("glBindBuffer", "GL_SHADER_STORAGE_BUFFER", obj.m_activationsSSBO, 0),
      GL("glBufferData", "GL_SHADER_STORAGE_BUFFER", obj.m_activationsSSBO, obj.m_totalNeurons),
      GL("glBindBuffer", "GL_SHADER_STORAGE_BUFFER", 0, 0)>>

\* The loop of nn_buffers.cpp:31-33 storing the activation types.
SetActivationTypes(layerInfo, activations) ==
    [k \in 1..Len(layerInfo) |->
        IF k <= Len(activations)
        THEN [layerInfo[k] EXCEPT !.activationType = activations[k]]
        ELSE layerInfo[k]]

(***************************************************************************)
(* NeuralBuffers::initialize (nn_buffers.cpp:9-42).  With an empty         *)
(* topology the loop bound m_topology.size() - 1 of computeOffsets wraps   *)
(* to the largest size_t and the loop body reads m_topology[0] of an empty *)
(* vector: the call does not return, the program is aborted.  With one     *)
(* entry the loop runs zero times and the call goes on to the length       *)
(* check.                                                                  *)
(***************************************************************************)
\* nn_buffers.cpp:16-22: the members assigned before the length check.
InitializePlan(obj, layerSizes, activations) ==
    LET off == computeOffsets(layerSizes)
    IN  [obj EXCEPT !.m_topology = layerSizes,
                    !.m_totalNeurons = SumSeq(layerSizes),
                    !.m_layerInfo = off.m_layerInfo,
                    !.m_totalWeights = off.m_totalWeights,
                    !.m_totalBiases = off.m_totalBiases]

BuffersInitialize(layerSizes, activations) ==
    /\ LET cleaned == BuffersCleanupObj(buffers)
           server0 == BuffersCleanupGL(gl, buffers)
           planned == InitializePlan(cleaned, layerSizes, activations)
       IN  IF layerSizes = <<>>
           THEN /\ buffers' = [cleaned EXCEPT !.m_topology = <<>>, !.m_totalNeurons = 0,
                                              !.m_layerInfo = <<>>, !.m_totalWeights = 0,
                                              !.m_totalBiases = 0]
                /\ gl' = server0
                /\ glLog' = BuffersCleanupLog(buffers)
                /\ process' = "aborted"
           ELSE IF Len(activations) # Len(layerSizes) - 1
           THEN /\ buffers' = planned
                /\ gl' = server0
                /\ glLog' = BuffersCleanupLog(buffers)
                /\ process' = process
           ELSE \E made \in createBuffers(server0,
                              [planned EXCEPT !.m_layerInfo =
                                  SetActivationTypes(@, activations)]) :
                    /\ buffers' = made.obj
                    /\ gl' = made.server
                    /\ glLog' = BuffersCleanupLog(buffers) \o createBuffersLog(made.obj)
                    /\ process' = process
    /\ last' = Call("initialize", -1, layerSizes, activations, <<>>)
    /\ UNCHANGED <<compute, renderer, host, context>>

(***************************************************************************)
(* The store's data operations (nn_buffers.cpp:113-214).  Each returns     *)
(* without a GL command when the length check fails.  st is a record       *)
(* [server, log]; the result is the set of such records the call can       *)
(* leave.                                                                  *)
(***************************************************************************)
UploadLog(name, n) ==
    <<GL("glBindBuffer", "GL_SHADER_STORAGE_BUFFER", name, 0),
      GL("glBufferSubData", "GL_SHADER_STORAGE_BUFFER", name, n),
      GL("glBindBuffer", "GL_SHADER_STORAGE_BUFFER", 0, 0)>>

ReadLog(name, n) ==
    <<GL("glBindBuffer", "GL_SHADER_STORAGE_BUFFER", name, 0),
      GL("glGetBufferSubData", "GL_SHADER_STORAGE_BUFFER", name, n),
      GL("glBindBuffer", "GL_SHADER_STORAGE_BUFFER", 0, 0)>>

\* Mutant: the size check is dropped.
UploadUncheckedTo(server, name, expected, values) ==
    {[server |-> s, log |-> UploadLog(name, Len(values))]
     : s \in BufferSubData(server, name, 0, values)}

\* The body shared by the upload operations: size check, then a write at offset 0.
UploadTo(server, name, expected, values) ==
    IF Len(values) # expected
    THEN {[server |-> server, log |-> <<>>]}
    ELSE {[server |-> s, log |-> UploadLog(name, Len(values))]
          : s \in BufferSubData(server, name, 0, values)}

\* NeuralBuffers::uploadWeights (nn_buffers.cpp:113-125)
uploadWeights(server, obj, weights) ==
    UploadTo(server, obj.m_weightsSSBO, obj.m_totalWeights, weights)

\* NeuralBuffers::uploadBiases (nn_buffers.cpp:127-139)
uploadBiases(server, obj, biases) ==
    UploadTo(server, obj.m_biasesSSBO, obj.m_totalBiases, biases)

\* Mutant: the rest of the activation buffer is zeroed along with the write.
setInputsClearingRest(server, obj, inputs) ==
    IF Len(inputs) # obj.m_topology[1]
    THEN {[server |-> server, log |-> <<>>]}
    ELSE {[server |-> s, log |-> UploadLog(obj.m_activationsSSBO, obj.m_totalNeurons)]
          : s \in BufferSubData(server, obj.m_activationsSSBO, 0,
                                [k \in 1..obj.m_totalNeurons |->
                                    IF k <= Len(inputs) THEN inputs[k] ELSE 0])}

\* NeuralBuffers::setInputs (nn_buffers.cpp:141-154)
setInputs(server, obj, inputs) ==
    UploadTo(server, obj.m_activationsSSBO, obj.m_topology[1], inputs)

\* NeuralBuffers::uploadActivations (nn_buffers.cpp:167-179)
uploadActivations(server, obj, activations) ==
    UploadTo(server, obj.m_activationsSSBO, obj.m_totalNeurons, activations)

\* NeuralBuffers::clearActivations (nn_buffers.cpp:156-165): no length to check.
clearActivations(server, obj) ==
    {[server |-> s, log |-> UploadLog(obj.m_activationsSSBO, obj.m_totalNeurons)]
     : s \in BufferSubData(server, obj.m_activationsSSBO, 0,
                           [k \in 1..obj.m_totalNeurons |-> 0])}

\* The read operations: resize the vector, read n elements at offset.
ReadFrom(server, name, offset, n) ==
    {[server |-> r[2], log |-> ReadLog(name, n), ret |-> r[1]]
     : r \in GetBufferSubData(server, name, offset, n)}

\* Mutant: the read starts where the last layer's input slice starts.
readOutputsFromInputSlice(server, obj) ==
    LET outputSize == obj.m_topology[Len(obj.m_topology)]
    IN  ReadFrom(server, obj.m_activationsSSBO,
                 Max(0, obj.m_totalNeurons - outputSize
                        - obj.m_topology[Max(1, Len(obj.m_topology) - 1)]),
                 outputSize)

\* NeuralBuffers::readOutputs (nn_buffers.cpp:181-194)
readOutputs(server, obj) ==
    LET outputSize == obj.m_topology[Len(obj.m_topology)]
    IN  ReadFrom(server, obj.m_activationsSSBO, obj.m_totalNeurons - outputSize, outputSize)

\* NeuralBuffers::readAllActivations (nn_buffers.cpp:196-204)
readAllActivations(server, obj) ==
    ReadFrom(server, obj.m_activationsSSBO, 0, obj.m_totalNeurons)

\* NeuralBuffers::readWeights (nn_buffers.cpp:206-214)
readWeights(server, obj) ==
    ReadFrom(server, obj.m_weightsSSBO, 0, obj.m_totalWeights)

(***************************************************************************)
(* The vectors callers pass: each pattern of a pool cut to the length the  *)
(* store expects, and the first pattern cut one short and one long.        *)
(* Weights are in units, biases and activations in half-units; the first   *)
(* pattern of the weight and bias pools starts with the XOR demo's data    *)
(* (main.cpp:113-128), the input pool holds two of its inputs, (0,1) and   *)
(* (1,1) (main.cpp:184, 186).                                              *)
(***************************************************************************)
WeightPool == <<(<<1, 1, 1, 1, 1, -2, 1>>)>>

BiasPool == <<(<<0, -3, 0, 0>>)>>

InputPool == <<(<<0, 2, 0>>), (<<2, 2, 2>>)>>

ActivationPool == <<(<<2, 0, 1, 1, 0, 2>>)>>

Prefixes(pool, n) ==
    {SubSeq(pool[p], 1, n) : p \in {q \in DOMAIN pool : n <= Len(pool[q])}}
    \cup {SubSeq(pool[1], 1, k) : k \in {m \in {n - 1, n + 1} : m >= 0 /\ m <= Len(pool[1])}}

Done(op, index, values, after) ==
    /\ gl' = after.server
    /\ glLog' = after.log
    /\ last' = Call(op, index, values, <<>>, <<>>)

Returned(op, after) ==
    /\ gl' = after.server
    /\ glLog' = after.log
    /\ last' = Call(op, -1, <<>>, <<>>, after.ret)

UploadWeights(weights) ==
    /\ \E after \in uploadWeights(gl, buffers, weights) :
           Done("uploadWeights", -1, weights, after)
    /\ UNCHANGED <<buffers, compute, renderer, process, host, context>>

UploadBiases(biases) ==
    /\ \E after \in uploadBiases(gl, buffers, biases) :
           Done("uploadBiases", -1, biases, after)
    /\ UNCHANGED <<buffers, compute, renderer, process, host, context>>

\* m_topology[0] of an empty topology is not read: the store holds a topology.
SetInputs(inputs) ==
    /\ buffers.m_topology # <<>>
    /\ \E after \in setInputs(gl, buffers, inputs) :
           Done("setInputs", -1, inputs, after)
    /\ UNCHANGED <<buffers, compute, renderer, process, host, context>>

UploadActivations(activations) ==
    /\ \E after \in uploadActivations(gl, buffers, activations) :
           Done("uploadActivations", -1, activations, after)
    /\ UNCHANGED <<buffers, compute, renderer, process, host, context>>

ClearActivations ==
    /\ \E after \in clearActivations(gl, buffers) :
           Done("clearActivations", -1, <<>>, after)
    /\ UNCHANGED <<buffers, compute, renderer, process, host, context>>

\* m_topology.back() of an empty topology is not read: the store holds a topology.
ReadOutputs ==
    /\ buffers.m_topology # <<>>
    /\ \E after \in readOutputs(gl, buffers) : Returned("readOutputs", after)
    /\ UNCHANGED <<buffers, compute, renderer, process, host, context>>

ReadAllActivations ==
    /\ \E after \in readAllActivations(gl, buffers) : Returned("readAllActivations", after)
    /\ UNCHANGED <<buffers, compute, renderer, process, host, context>>

ReadWeights ==
    /\ \E after \in readWeights(gl, buffers) : Returned("readWeights", after)
    /\ UNCHANGED <<buffers, compute, renderer, process, host, context>>

(***************************************************************************)
(* The forward-pass kernel, shaders/forward.comp.  One invocation per      *)
(* output neuron o of the selected layer: the weighted sum of the layer's  *)
(* inputs over the row-major weights, plus the bias, through the layer's   *)
(* activation function, written to the layer's output slice.  The kernel   *)
(* takes the layer's sizes and offsets from the parameter block (the UBO). *)
(* Values are half-units: Sigmoid and Tanh are rounded to the nearest      *)
(* half.                                                                   *)
(***************************************************************************)
Activate(kind, x) ==
    CASE kind = 0 -> Max(0, x)
      [] kind = 1 -> IF x <= -3 THEN 0 ELSE IF x >= 3 THEN 2 ELSE 1
      [] kind = 2 -> Max(-2, Min(2, x))
      [] OTHER -> x

\* A shader's read of element i (0-based) of a buffer: zero outside the store.
Load(s, i) == IF i >= 0 /\ i < Len(s) THEN s[i + 1] ELSE 0

RECURSIVE WeightedSum(_, _, _, _, _)
WeightedSum(info, weights, inputs, o, i) ==
    IF i >= info.inputSize THEN 0
    ELSE Load(weights, info.weightOffset + o * info.inputSize + i)
            * Load(inputs, info.inputOffset + i)
         + WeightedSum(info, weights, inputs, o, i + 1)

Neuron(info, weights, biases, inputs, o) ==
    Activate(info.activationType,
             Load(biases, info.biasOffset + o) + WeightedSum(info, weights, inputs, o, 0))

(***************************************************************************)
(* glDispatchCompute(workGroups, 1, 1) with the buffers w, b, a bound to   *)
(* the shader-storage points 0, 1, 2 and ubo to the uniform point 0.  The  *)
(* kernel's reads are shader-storage accesses: they observe ssboView       *)
(* where an earlier shader write has not been made visible to them, or     *)
(* the write.  Its writes land in data alone.                              *)
(***************************************************************************)
DispatchCompute(server, w, b, a, ubo, layerIndex, workGroups) ==
    LET table == DataOf(server, ubo)
    IN  IF a \notin DOMAIN server.buffers \/ layerIndex >= Len(table)
        THEN {server}
        ELSE LET info == table[layerIndex + 1]
                 store == server.buffers[a]
                 written(inputs) ==
                     [k \in 1..Len(store.data) |->
                        LET o == (k - 1) - info.outputOffset
                        IN  IF o >= 0 /\ o < info.outputSize
                               /\ o < workGroups * WorkGroupSize
                            THEN Neuron(info, DataOf(server, w), DataOf(server, b), inputs, o)
                            ELSE store.data[k]]
             IN  {[server EXCEPT !.buffers[a].data = written(inputs)]
                  : inputs \in {store.data, store.ssboView}}

\* glMemoryBarrier(bits): the accesses that follow see the shader writes before it.
MemoryBarrier(server, bits) ==
    [server EXCEPT !.buffers =
        [n \in DOMAIN server.buffers |->
            LET s == server.buffers[n]
            IN  [data |-> s.data,
                 ssboView |->
                     IF bits \in {"GL_SHADER_STORAGE_BARRIER_BIT", "GL_ALL_BARRIER_BITS"}
                     THEN s.data ELSE s.ssboView,
                 updateView |->
                     IF bits \in {"GL_BUFFER_UPDATE_BARRIER_BIT", "GL_ALL_BARRIER_BITS"}
                     THEN s.data ELSE s.updateView]]]

(***************************************************************************)
(* ShaderLoader::loadComputeShader (shader_loader.cpp:6-21): a program     *)
(* name when the file is read, the shader compiles and the program links,  *)
(* 0 otherwise (a program that fails to link is deleted again).            *)
(***************************************************************************)
LoadOutcomes == {"ok", "unreadable", "compile_error", "link_error"}

\* ShaderLoader::readShaderFile (shader_loader.cpp:79-91): was the file opened.
readShaderFile(outcome) == outcome # "unreadable"

\* ShaderLoader::compileShader (shader_loader.cpp:93-106): a shader object, or
\* 0 with the object deleted when the compile status is false.
compileShader(outcome) == IF outcome = "compile_error" THEN 0 ELSE 1

\* ShaderLoader::linkProgram (shader_loader.cpp:108-123): glCreateProgram, then
\* the program is deleted and 0 returned when the link status is false.
linkProgram(server, outcome) ==
    LET program == FreshName(server.programs)
    IN  IF outcome = "link_error"
        THEN [program |-> 0, server |-> server]
        ELSE [program |-> program,
              server |-> [server EXCEPT !.programs = @ \cup {program}]]

\* Mutant: a program that failed to link is returned as it is.
loadComputeShaderReturningUnlinked(server, outcome) ==
    IF ~readShaderFile(outcome) THEN [program |-> 0, server |-> server]
    ELSE IF compileShader(outcome) = 0 THEN [program |-> 0, server |-> server]
    ELSE linkProgram(server, "ok")

loadComputeShader(server, outcome) ==
    IF ~readShaderFile(outcome) THEN [program |-> 0, server |-> server]
    ELSE IF compileShader(outcome) = 0 THEN [program |-> 0, server |-> server]
    ELSE linkProgram(server, outcome)

\* NeuralCompute::uploadLayerInfo (nn_compute.cpp:89-101)
uploadLayerInfo(server, obj, ubo) == BufferData(server, ubo, obj.m_layerInfo)

uploadLayerInfoLog(obj, ubo) ==
    <<GL("glBindBuffer", "GL_UNIFORM_BUFFER", ubo, 0),
      GL("glBufferData", "GL_UNIFORM_BUFFER", ubo, Len(obj.m_layerInfo)),
      GL("glBindBufferBase", "GL_UNIFORM_BUFFER", ubo, 0),
      GL("glBindBuffer", "GL_UNIFORM_BUFFER", 0, 0)>>

(***************************************************************************)
(* NeuralCompute::initialize (nn_compute.cpp:9-30), on a store whose       *)
(* initialize has created its buffers.                                     *)
(***************************************************************************)
\* Mutant: the kernel handle is assigned only when the load succeeded.
BindDispatcherKeepingProgram(cmp, program) ==
    IF program = 0 THEN [cmp EXCEPT !.m_buffers = TRUE]
    ELSE [cmp EXCEPT !.m_buffers = TRUE, !.m_computeProgram = program]

\* nn_compute.cpp:10-13: the store is bound and the handle assigned, 0 included.
BindDispatcher(cmp, program) ==
    [cmp EXCEPT !.m_buffers = TRUE, !.m_computeProgram = program]

ComputeInitialize(outcome) ==
    /\ buffers.m_activationsSSBO # 0
    /\ LET loaded == loadComputeShader(gl, outcome)
           bound == BindDispatcher(compute, loaded.program)
       IN  IF loaded.program = 0
           THEN /\ compute' = bound
                /\ gl' = loaded.server
                /\ glLog' = <<>>
           ELSE LET ubo == FreshName(DOMAIN loaded.server.buffers)
                    server1 == uploadLayerInfo(loaded.server, buffers, ubo)
                    query == IF compute.m_profilingEnabled
                             THEN FreshName(server1.queries) ELSE compute.m_timerQuery
                IN  /\ compute' = [bound EXCEPT !.m_layerInfoUBO = ubo,
                                                !.m_timerQuery = query]
                    /\ gl' = IF compute.m_profilingEnabled
                             THEN [server1 EXCEPT !.queries = @ \cup {query}]
                             ELSE server1
                    /\ glLog' = <<GL("glGenBuffers", "", ubo, 1)>>
                                \o uploadLayerInfoLog(buffers, ubo)
                                \o (IF compute.m_profilingEnabled
                                    THEN <<GL("glGenQueries", "", query, 1)>> ELSE <<>>)
    /\ last' = Call("computeInitialize", -1, <<>>, <<outcome>>,
                    <<loadComputeShader(gl, outcome).program # 0>>)
    /\ UNCHANGED <<buffers, renderer, process, host, context>>

(***************************************************************************)
(* NeuralCompute::forwardLayer (nn_compute.cpp:46-82).  The set of         *)
(* [server, log] records the call can leave.                               *)
(***************************************************************************)
ForwardBarrierBits == "GL_SHADER_STORAGE_BARRIER_BIT"   \* nn_compute.cpp:81

(***************************************************************************)
(* uint32_t arithmetic (nn_compute.cpp:73-75).  A 32-bit unsigned value is *)
(* held as its two 16-bit halves, value = hi * 2^16 + lo, so that sums     *)
(* wrap at 2^32 as the machine's do.                                       *)
(***************************************************************************)
U16 == 65536

U32(hi, lo) == [hi |-> hi, lo |-> lo]

\* The uint32_t holding the natural number n.
U32Of(n) == U32((n \div U16) % U16, n % U16)

\* a + n in uint32_t, for 0 <= n < 2^16: the carry out of the high half is lost.
U32Add(a, n) ==
    LET lo == a.lo + n
    IN  U32((a.hi + lo \div U16) % U16, lo % U16)

\* a / d in uint32_t for a divisor d of 2^16, as a number.
U32Div(a, d) == a.hi * (U16 \div d) + a.lo \div d

\* (outputSize + workGroupSize - 1) / workGroupSize, nn_compute.cpp:73-75
WorkGroupsU32(outputSize) ==
    U32Div(U32Add(outputSize, WorkGroupSize - 1), WorkGroupSize)

\* The same on a descriptor's outputSize held as a number.
WorkGroups(outputSize) == WorkGroupsU32(U32Of(outputSize))

forwardLayerLog(obj, cmp, layerIndex, workGroups) ==
    <<GL("glUseProgram", "", cmp.m_computeProgram, 0),
      GL("glBindBufferBase", "GL_SHADER_STORAGE_BUFFER", obj.m_weightsSSBO, 0),
      GL("glBindBufferBase", "GL_SHADER_STORAGE_BUFFER", obj.m_biasesSSBO, 1),
      GL("glBindBufferBase", "GL_SHADER_STORAGE_BUFFER", obj.m_activationsSSBO, 2),
      GL("glBindBufferBase", "GL_UNIFORM_BUFFER", cmp.m_layerInfoUBO, 0),
      GL("glUniform1ui", "u_layerIndex", cmp.m_computeProgram, layerIndex),
      GL("glDispatchCompute", "", 0, workGroups),
      GL("glMemoryBarrier", ForwardBarrierBits, 0, 0)>>

\* Mutant: the index check is dropped; a descriptor out of range reads as size 0.
forwardLayerUncheckedIndex(server, obj, cmp, layerIndex) ==
    IF ~cmp.m_buffers \/ cmp.m_computeProgram = 0
    THEN {[server |-> server, log |-> <<>>]}
    ELSE LET outputSize == IF layerIndex < Len(obj.m_layerInfo)
                           THEN At(obj.m_layerInfo, layerIndex).outputSize ELSE 0
             workGroups == WorkGroups(outputSize)
         IN  {[server |-> MemoryBarrier(d, ForwardBarrierBits),
               log |-> forwardLayerLog(obj, cmp, layerIndex, workGroups)]
              : d \in DispatchCompute(server, obj.m_weightsSSBO, obj.m_biasesSSBO,
                                      obj.m_activationsSSBO, cmp.m_layerInfoUBO,
                                      layerIndex, workGroups)}

\* Mutant: only the store pointer is tested, not the kernel handle.
forwardLayerUncheckedProgram(server, obj, cmp, layerIndex) ==
    IF ~cmp.m_buffers
    THEN {[server |-> server, log |-> <<>>]}
    ELSE IF layerIndex >= Len(obj.m_layerInfo)
    THEN {[server |-> server, log |-> <<>>]}
    ELSE LET workGroups == WorkGroups(At(obj.m_layerInfo, layerIndex).outputSize)
         IN  {[server |-> MemoryBarrier(d, ForwardBarrierBits),
               log |-> forwardLayerLog(obj, cmp, layerIndex, workGroups)]
              : d \in DispatchCompute(server, obj.m_weightsSSBO, obj.m_biasesSSBO,
                                      obj.m_activationsSSBO, cmp.m_layerInfoUBO,
                                      layerIndex, workGroups)}

forwardLayer(server, obj, cmp, layerIndex) ==
    IF ~cmp.m_buffers \/ cmp.m_computeProgram = 0
    THEN {[server |-> server, log |-> <<>>]}
    ELSE IF layerIndex >= Len(obj.m_layerInfo)
    THEN {[server |-> server, log |-> <<>>]}
    ELSE LET workGroups == WorkGroups(At(obj.m_layerInfo, layerIndex).outputSize)
         IN  {[server |-> MemoryBarrier(d, ForwardBarrierBits),
               log |-> forwardLayerLog(obj, cmp, layerIndex, workGroups)]
              : d \in DispatchCompute(server, obj.m_weightsSSBO, obj.m_biasesSSBO,
                                      obj.m_activationsSSBO, cmp.m_layerInfoUBO,
                                      layerIndex, workGroups)}

(***************************************************************************)
(* NeuralCompute::forward (nn_compute.cpp:32-44): the for loop over the    *)
(* store's layer table, one iteration per recursion.                       *)
(***************************************************************************)
RECURSIVE ForwardLoop(_, _, _, _)
ForwardLoop(states, obj, cmp, i) ==
    IF i < Len(obj.m_layerInfo)
    THEN ForwardLoop(UNION {{[server |-> r.server, log |-> st.log \o r.log]
                             : r \in forwardLayer(st.server, obj, cmp, i)}
                            : st \in states},
                     obj, cmp, i + 1)
    ELSE states

\* Mutant: the loop starts at layer 1.
forwardFromSecondLayer(server, obj, cmp) ==
    IF ~cmp.m_buffers \/ cmp.m_computeProgram = 0
    THEN {[server |-> server, log |-> <<>>]}
    ELSE ForwardLoop({[server |-> server, log |-> <<>>]}, obj, cmp, 1)

forward(server, obj, cmp) ==
    IF ~cmp.m_buffers \/ cmp.m_computeProgram = 0
    THEN {[server |-> server, log |-> <<>>]}
    ELSE ForwardLoop({[server |-> server, log |-> <<>>]}, obj, cmp, 0)

ForwardLayer(layerIndex) ==
    /\ \E after \in forwardLayer(gl, buffers, compute, layerIndex) :
           Done("forwardLayer", layerIndex, <<>>, after)
    /\ UNCHANGED <<buffers, compute, renderer, process, host, context>>

Forward ==
    /\ \E after \in forward(gl, buffers, compute) : Done("forward", -1, <<>>, after)
    /\ UNCHANGED <<buffers, compute, renderer, process, host, context>>

\* NeuralCompute::getLayerCount (nn_compute.cpp:84-87)
getLayerCount(obj, cmp) == IF ~cmp.m_buffers THEN 0 ELSE Len(obj.m_layerInfo)

GetLayerCount ==
    /\ last' = Call("getLayerCount", -1, <<>>, <<>>, <<getLayerCount(buffers, compute)>>)
    /\ glLog' = <<>>
    /\ UNCHANGED <<buffers, compute, renderer, gl, process, host, context>>

\* NeuralCompute::setProfilingEnabled (nn_compute.h:61)
SetProfilingEnabled(enabled) ==
    /\ compute' = [compute EXCEPT !.m_profilingEnabled = enabled]
    /\ last' = Call("setProfilingEnabled", -1, <<>>, <<enabled>>, <<>>)
    /\ glLog' = <<>>
    /\ UNCHANGED <<buffers, renderer, gl, process, host, context>>

\* NeuralCompute::getLastExecutionTime (nn_compute.h:56)
GetLastExecutionTime ==
    /\ last' = Call("getLastExecutionTime", -1, <<>>, <<>>,
                    <<compute.m_lastExecutionTimeMs>>)
    /\ glLog' = <<>>
    /\ UNCHANGED <<buffers, compute, renderer, gl, process, host, context>>

(***************************************************************************)
(* NeuralCompute::cleanup (nn_compute.cpp:103-116): each handle the        *)
(* dispatcher holds is deleted and zeroed; the store pointer stays.        *)
(***************************************************************************)
ComputeCleanupGL(server, cmp) ==
    LET s1 == IF cmp.m_computeProgram # 0
              THEN [server EXCEPT !.programs = @ \ {cmp.m_computeProgram}] ELSE server
        s2 == IF cmp.m_layerInfoUBO # 0 THEN DeleteBuffer(s1, cmp.m_layerInfoUBO) ELSE s1
    IN  IF cmp.m_timerQuery # 0
        THEN [s2 EXCEPT !.queries = @ \ {cmp.m_timerQuery}] ELSE s2

ComputeCleanupLog(cmp) ==
    (IF cmp.m_computeProgram # 0
     THEN <<GL("glDeleteProgram", "", cmp.m_computeProgram, 1)>> ELSE <<>>)
    \o (IF cmp.m_layerInfoUBO # 0
        THEN <<GL("glDeleteBuffers", "", cmp.m_layerInfoUBO, 1)>> ELSE <<>>)
    \o (IF cmp.m_timerQuery # 0
        THEN <<GL("glDeleteQueries", "", cmp.m_timerQuery, 1)>> ELSE <<>>)

ComputeCleanupObj(cmp) ==
    [cmp EXCEPT !.m_computeProgram = 0, !.m_layerInfoUBO = 0, !.m_timerQuery = 0]

(***************************************************************************)
(* The end of main (main.cpp:342): the objects are destroyed in the        *)
(* reverse order of their declaration, the dispatcher (declared at         *)
(* main.cpp:139) before the store (main.cpp:107).  Each destructor runs    *)
(* cleanup (nn_compute.cpp:5-7, nn_buffers.cpp:5-7).                       *)
(***************************************************************************)
ComputeDestroy ==
    /\ process = "running"
    /\ compute' = ComputeCleanupObj(compute)
    /\ gl' = ComputeCleanupGL(gl, compute)
    /\ glLog' = ComputeCleanupLog(compute)
    /\ last' = Call("~NeuralCompute", -1, <<>>, <<>>, <<>>)
    /\ process' = "dispatcherDestroyed"
    /\ UNCHANGED <<buffers, renderer, host, context>>

BuffersDestroy ==
    /\ process = "dispatcherDestroyed"
    /\ buffers' = BuffersCleanupObj(buffers)
    /\ gl' = BuffersCleanupGL(gl, buffers)
    /\ glLog' = BuffersCleanupLog(buffers)
    /\ last' = Call("~NeuralBuffers", -1, <<>>, <<>>, <<>>)
    /\ process' = "exited"
    /\ UNCHANGED <<compute, renderer, host, context>>

(***************************************************************************)
(* Renderer::generateNeuronLayout (renderer.cpp:118-146): one position per *)
(* neuron, layer by layer.  x = layerIdx * 3.0; y = yOffset + neuronIdx    *)
(* with yOffset = -(layerSize - 1) / 2, held in half-units; z = 0.         *)
(***************************************************************************)
LayerPositions(layerIdx, layerSize) ==
    [n \in 1..layerSize |-> <<3 * layerIdx, 2 * (n - 1) - (layerSize - 1), 0>>]

RECURSIVE NeuronLayoutLoop(_, _, _)
NeuronLayoutLoop(topology, layerIdx, positions) ==
    IF layerIdx < Len(topology)
    THEN NeuronLayoutLoop(topology, layerIdx + 1,
                          positions \o LayerPositions(layerIdx, At(topology, layerIdx)))
    ELSE positions

generateNeuronLayout(topology) == NeuronLayoutLoop(topology, 0, <<>>)

(***************************************************************************)
(* Renderer::generateConnections (renderer.cpp:168-227): the three nested  *)
(* loops with the locals neuronOffset and weightOffset.  Each connection   *)
(* is recorded with the indices the loop body used (reads) next to the two *)
(* vertices it pushed.                                                     *)
(***************************************************************************)
\* Mutant: the row stride is the layer's output size.
ConnectionWeightIdxOutputStride(weightOffset, inputSize, outputSize, outIdx, inIdx) ==
    weightOffset + (outIdx * outputSize) + inIdx

\* renderer.cpp:194
ConnectionWeightIdx(weightOffset, inputSize, outputSize, outIdx, inIdx) ==
    weightOffset + (outIdx * inputSize) + inIdx

\* The positions vector and the weights vector are read at a computed index.
ElementAt(vector, i, default) ==
    IF i >= 0 /\ i < Len(vector) THEN vector[i + 1] ELSE default

LayerConnections(layerIdx, inputSize, outputSize, neuronOffset, weightOffset) ==
    [c \in 1..(inputSize * outputSize) |->
        LET outIdx == (c - 1) \div inputSize
            inIdx == (c - 1) % inputSize
        IN  [layerIdx |-> layerIdx, outIdx |-> outIdx, inIdx |-> inIdx,
             weightIdx |-> ConnectionWeightIdx(weightOffset, inputSize, outputSize,
                                               outIdx, inIdx),
             startIdx |-> neuronOffset + inIdx,
             endIdx |-> neuronOffset + inputSize + outIdx]]

RECURSIVE ConnectionsLoop(_, _, _, _, _)
ConnectionsLoop(topology, layerIdx, neuronOffset, weightOffset, reads) ==
    IF layerIdx < Len(topology) - 1
    THEN LET inputSize == At(topology, layerIdx)
             outputSize == At(topology, layerIdx + 1)
         IN  ConnectionsLoop(topology, layerIdx + 1,
                             neuronOffset + inputSize,
                             weightOffset + inputSize * outputSize,
                             reads \o LayerConnections(layerIdx, inputSize, outputSize,
                                                       neuronOffset, weightOffset))
    ELSE reads

\* Mutant: the vertices pushed are counted, not the connections.
generateConnectionsCountingVertices(topology, positions, weights) ==
    LET reads == ConnectionsLoop(topology, 0, 0, 0, <<>>)
        vertex(k) ==
            LET r == reads[(k + 1) \div 2]
            IN  [position |-> ElementAt(positions,
                                        IF k % 2 = 1 THEN r.startIdx ELSE r.endIdx,
                                        <<0, 0, 0>>),
                 weight |-> ElementAt(weights, r.weightIdx, 0)]
    IN  [reads |-> reads,
         m_connectionVertices |-> [k \in 1..(2 * Len(reads)) |-> vertex(k)],
         m_connectionCount |-> 2 * Len(reads)]

generateConnections(topology, positions, weights) ==
    LET reads == ConnectionsLoop(topology, 0, 0, 0, <<>>)
        vertex(k) ==
            LET r == reads[(k + 1) \div 2]
            IN  [position |-> ElementAt(positions,
                                        IF k % 2 = 1 THEN r.startIdx ELSE r.endIdx,
                                        <<0, 0, 0>>),
                 weight |-> ElementAt(weights, r.weightIdx, 0)]
    IN  [reads |-> reads,
         m_connectionVertices |-> [k \in 1..(2 * Len(reads)) |-> vertex(k)],
         m_connectionCount |-> Len(reads)]

(***************************************************************************)
(* ShaderLoader::loadShaderProgram (shader_loader.cpp:23-77): a program    *)
(* name when every stage is read and compiles and the program links, 0     *)
(* otherwise.                                                              *)
(***************************************************************************)
loadShaderProgram(server, outcome) ==
    IF outcome = "ok"
    THEN LET program == FreshName(server.programs)
         IN  [program |-> program,
              server |-> [server EXCEPT !.programs = @ \cup {program}]]
    ELSE [program |-> 0, server |-> server]

(***************************************************************************)
(* Renderer::initialize (renderer.cpp:10-48), on a store that holds a      *)
(* topology.                                                               *)
(***************************************************************************)
RendererInitialize(neuronOutcome, connectionOutcome) ==
    /\ buffers.m_topology # <<>>
    /\ LET bound == [renderer EXCEPT !.m_buffers = TRUE,
                                     !.m_totalNeurons = buffers.m_totalNeurons]
           neuron == loadShaderProgram(gl, neuronOutcome)
           connection == loadShaderProgram(neuron.server, connectionOutcome)
       IN  IF neuron.program = 0
           THEN /\ renderer' = [bound EXCEPT !.m_neuronProgram = 0]
                /\ gl' = neuron.server
                /\ glLog' = <<>>
           ELSE IF connection.program = 0
           THEN /\ renderer' = [bound EXCEPT !.m_neuronProgram = neuron.program,
                                             !.m_connectionProgram = 0]
                /\ gl' = connection.server
                /\ glLog' = <<>>
           ELSE \E read \in readWeights(connection.server, buffers) :
                  LET positions == generateNeuronLayout(buffers.m_topology)
                      neuronVAO == FreshName(read.server.vertexArrays)
                      neuronVBO == FreshName(DOMAIN read.server.buffers)
                      made == generateConnections(buffers.m_topology, positions, read.ret)
                      connectionVAO == FreshName(read.server.vertexArrays \cup {neuronVAO})
                      connectionVBO == FreshName(DOMAIN read.server.buffers \cup {neuronVBO})
                      server1 == BufferData(read.server, neuronVBO, positions)
                      server2 == IF made.m_connectionVertices = <<>> THEN server1
                                 ELSE BufferData(server1, connectionVBO,
                                                 made.m_connectionVertices)
                  IN  /\ renderer' = [bound EXCEPT
                                        !.m_neuronProgram = neuron.program,
                                        !.m_connectionProgram = connection.program,
                                        !.m_neuronPositions = positions,
                                        !.m_neuronVAO = neuronVAO,
                                        !.m_neuronPositionVBO = neuronVBO,
                                        !.reads = made.reads,
                                        !.m_connectionVertices = made.m_connectionVertices,
                                        !.m_connectionCount = made.m_connectionCount,
                                        !.m_connectionVAO = connectionVAO,
                                        !.m_connectionVBO = connectionVBO]
                      /\ gl' = [server2 EXCEPT !.vertexArrays =
                                   @ \cup {neuronVAO, connectionVAO}]
                      /\ glLog' = <<GL("glGenVertexArrays", "", neuronVAO, 1),
                                    GL("glGenBuffers", "", neuronVBO, 1),
                                    GL("glBufferData", "GL_ARRAY_BUFFER", neuronVBO,
                                       Len(positions))>>
                                  \o read.log
                                  \o <<GL("glGenVertexArrays", "", connectionVAO, 1),
                                       GL("glGenBuffers", "", connectionVBO, 1)>>
                                  \o (IF made.m_connectionVertices = <<>> THEN <<>>
                                      ELSE <<GL("glBufferData", "GL_ARRAY_BUFFER",
                                                connectionVBO,
                                                Len(made.m_connectionVertices))>>)
    /\ last' = Call("rendererInitialize", -1, <<>>, <<>>, <<>>)
    /\ UNCHANGED <<buffers, compute, process, host, context>>

(***************************************************************************)
(* Renderer::render (renderer.cpp:50-116) and renderConnections            *)
(* (renderer.cpp:253-278).  The draws run the vertex, geometry and         *)
(* fragment shaders of shaders/neuron.* and shaders/connection.*, which    *)
(* read the vertex buffers and the store's buffers bound at the            *)
(* shader-storage points and write the framebuffer only.                   *)
(***************************************************************************)
DrawArrays(server, mode, count) == server

renderConnectionsLog(rnd) ==
    IF rnd.m_connectionCount = 0 THEN <<>>
    ELSE <<GL("glUseProgram", "", rnd.m_connectionProgram, 0),
           GL("glBindVertexArray", "", rnd.m_connectionVAO, 0),
           GL("glDrawArrays", "GL_LINES", 0, Len(rnd.m_connectionVertices)),
           GL("glBindVertexArray", "", 0, 0)>>

renderLog(rnd, obj, showConnections) ==
    (IF showConnections /\ rnd.m_connectionProgram # 0
     THEN renderConnectionsLog(rnd) ELSE <<>>)
    \o <<GL("glUseProgram", "", rnd.m_neuronProgram, 0),
         GL("glBindBufferBase", "GL_SHADER_STORAGE_BUFFER", obj.m_weightsSSBO, 0),
         GL("glBindBufferBase", "GL_SHADER_STORAGE_BUFFER", obj.m_biasesSSBO, 1),
         GL("glBindBufferBase", "GL_SHADER_STORAGE_BUFFER", obj.m_activationsSSBO, 2),
         GL("glBindVertexArray", "", rnd.m_neuronVAO, 0),
         GL("glDrawArrays", "GL_POINTS", 0, rnd.m_totalNeurons),
         GL("glBindVertexArray", "", 0, 0)>>

\* Mutant: the frame starts by zeroing the activations it is about to draw.
renderClearingActivations(server, rnd, obj, showConnections) ==
    IF ~rnd.m_buffers \/ rnd.m_neuronProgram = 0
    THEN {[server |-> server, log |-> <<>>]}
    ELSE {[server |-> st.server, log |-> st.log \o renderLog(rnd, obj, showConnections)]
          : st \in clearActivations(server, obj)}

render(server, rnd, obj, showConnections) ==
    IF ~rnd.m_buffers \/ rnd.m_neuronProgram = 0
    THEN {[server |-> server, log |-> <<>>]}
    ELSE LET drawn == IF showConnections /\ rnd.m_connectionProgram # 0
                         /\ rnd.m_connectionCount # 0
                      THEN DrawArrays(server, "GL_LINES", Len(rnd.m_connectionVertices))
                      ELSE server
         IN  {[server |-> DrawArrays(drawn, "GL_POINTS", rnd.m_totalNeurons),
               log |-> renderLog(rnd, obj, showConnections)]}

\* showConnections is m_config.showConnections, toggled by main.cpp:341-343.
Render(showConnections) ==
    /\ \E after \in render(gl, renderer, buffers, showConnections) :
           /\ gl' = after.server
           /\ glLog' = after.log
    /\ last' = Call("render", -1, <<>>, <<showConnections>>, <<>>)
    /\ UNCHANGED <<buffers, compute, renderer, process, host, context>>

(***************************************************************************)
(* The state after construction: NeuralBuffers() = default                 *)
(* (nn_buffers.h:121-130), NeuralCompute() = default (nn_compute.h:64-70), *)
(* Renderer's member initialisers (renderer.h), a GL context with no       *)
(* object.                                                                 *)
(***************************************************************************)
NeuralBuffersDefault ==
    [m_weightsSSBO |-> 0, m_biasesSSBO |-> 0, m_activationsSSBO |-> 0,
     m_topology |-> <<>>, m_layerInfo |-> <<>>,
     m_totalWeights |-> 0, m_totalBiases |-> 0, m_totalNeurons |-> 0]

\* The number of XOR tests (main.cpp:182-187), one key each (main.cpp:249-252).
NumTests == 4

\* main's locals before the loop is set up (main.cpp:189-197, 246-247, 301);
\* pc is "setup" until main.cpp:202 is passed; computed holds the output
\* slice as the latest stage the loop dispatched left it, tick the parity of
\* the frames run (GLContext::run, gl_context.cpp:76-95), pressed the keys
\* glfwGetKey reported pressed in the latest frame and ran the key handlers
\* that frame entered, in order.  showConnections is the renderer's
\* m_config.showConnections (renderer.h:22), which only the loop changes.
HostDefault ==
    [pc |-> "setup", currentTest |-> 1, currentLayer |-> 0, totalLayers |-> 0,
     currentActivations |-> <<>>, targetActivations |-> <<>>, isAnimating |-> FALSE,
     keyWasPressed |-> [k \in 1..NumTests |-> FALSE], spaceWasPressed |-> FALSE,
     cWasPressed |-> FALSE, showConnections |-> TRUE,
     computed |-> <<>>, tick |-> 0, pressed |-> {}, ran |-> <<>>]

(***************************************************************************)
(* The GLContext object (gl_context.h:31, 74; gl_context.cpp:5-70, 100-104)*)
(* and the GLFW library it drives.  m_window is 0 for nullptr.  glfw is    *)
(* the library: whether it is initialised, the windows that exist, the     *)
(* windows destroyed, the windows asked to close, and the error of the     *)
(* latest command.  calls are the GLFW commands issued for this object     *)
(* since its construction; contexts counts the objects constructed.  Of    *)
(* the configuration, the fields that choose the commands are kept; width, *)
(* height, title and version only parameterise the window.                 *)
(***************************************************************************)
ContextConfigDefault == [enableVSync |-> TRUE, enableDebugOutput |-> TRUE]

GLContextDefault ==
    [pc |-> "unborn", m_window |-> 0, m_config |-> ContextConfigDefault,
     glfw |-> [initialized |-> FALSE, windows |-> {}, destroyed |-> {},
               shouldClose |-> {}, error |-> "GLFW_NO_ERROR"],
     calls |-> <<>>, contexts |-> 0]

Init ==
    /\ host = HostDefault
    /\ context = GLContextDefault
    /\ buffers = NeuralBuffersDefault
    /\ compute = [m_computeProgram |-> 0, m_layerInfoUBO |-> 0, m_timerQuery |-> 0,
                  m_buffers |-> FALSE, m_profilingEnabled |-> FALSE,
                  m_lastExecutionTimeMs |-> 0]
    /\ renderer = [m_buffers |-> FALSE, m_totalNeurons |-> 0,
                   m_neuronProgram |-> 0, m_connectionProgram |-> 0,
                   m_neuronVAO |-> 0, m_neuronPositionVBO |-> 0,
                   m_connectionVAO |-> 0, m_connectionVBO |-> 0,
                   m_neuronPositions |-> <<>>, m_connectionVertices |-> <<>>,
                   m_connectionCount |-> 0, reads |-> <<>>]
    /\ gl = [buffers |-> <<>>, programs |-> {}, queries |-> {}, vertexArrays |-> {}]
    /\ glLog = <<>>
    /\ last = Call("construct", -1, <<>>, <<>>, <<>>)
    /\ process = "running"

(***************************************************************************)
(* The layout planner and the renderer's reading of the layout: every      *)
(* topology of 2..MaxLayers+1 layers of 1..MaxWidth neurons, with an       *)
(* activation list of the right length or one off, on a fresh store and    *)
(* again on a store that holds the smallest topology (the teardown path);  *)
(* then the renderer is initialised on the store, as in main.cpp:148-153.  *)
(***************************************************************************)
RECURSIVE SeqsOf(_, _)
SeqsOf(S, n) ==
    IF n = 0 THEN {<<>>}
    ELSE {Append(s, x) : s \in SeqsOf(S, n - 1), x \in S}

LayoutTopologies == UNION {SeqsOf(1..MaxWidth, n) : n \in 2..(MaxLayers + 1)}

\* Activation lists of length n: layer k gets type (k + shift) mod 3.
ActivationLists(n) ==
    {[k \in 1..n |-> (k + shift) % NumActivationTypes] : shift \in 0..(NumActivationTypes - 1)}

InitializeLayout ==
    /\ buffers.m_topology \in {<<>>, <<1, 1>>}
    /\ ~renderer.m_buffers
    /\ \E t \in LayoutTopologies :
         \E n \in {Len(t) - 2, Len(t) - 1, Len(t)} :
             \E a \in ActivationLists(n) : BuffersInitialize(t, a)

\* The renderer is initialised once, on the store (main.cpp:148-153).
InitializeRenderer ==
    /\ ~renderer.m_buffers
    /\ \E o1 \in {"ok", "link_error"} :
         \E o2 \in {"ok", "link_error"} : RendererInitialize(o1, o2)

NextLayout ==
    \/ InitializeLayout
    \/ InitializeRenderer

SpecLayout == Init /\ [][NextLayout]_vars

(***************************************************************************)
(* The store's initialize on its own, called any number of times with      *)
(* topologies of 0..MaxLayers entries and activation lists of the right    *)
(* length or one off, until a call aborts the program.                     *)
(***************************************************************************)
ConfigTopologies == UNION {SeqsOf(1..MaxWidth, n) : n \in 0..MaxLayers}

NextConfig ==
    /\ process = "running"
    /\ \E t \in ConfigTopologies :
         \E n \in {Len(t) - 2, Len(t) - 1, Len(t)} \cap (0..MaxLayers) :
             \E a \in ActivationLists(n) : BuffersInitialize(t, a)

SpecConfig == Init /\ [][NextConfig]_vars

(***************************************************************************)
(* The store and the dispatcher together, on the XOR demo's network        *)
(* (main.cpp:104-105: topology {2,2,1}, ReLU on both layers) and on a      *)
(* one-layer Sigmoid network; each also with an activation list one short. *)
(***************************************************************************)
SpecNetworks ==
    {<<(<<2, 2, 1>>), (<<0, 0>>)>>, <<(<<2, 2, 1>>), (<<0>>)>>,
     <<(<<1, 2>>), (<<1>>)>>, <<(<<1, 2>>), (<<>>)>>}

\* The store is initialised, and initialised again, before a dispatcher is
\* bound to it (main.cpp:108, 139-140).
InitializeStore ==
    /\ ~compute.m_buffers
    /\ \E net \in SpecNetworks : BuffersInitialize(net[1], net[2])

\* The dispatcher is initialised once, on the store (main.cpp:139-143).
InitializeDispatcher ==
    /\ ~compute.m_buffers
    /\ \E outcome \in LoadOutcomes : ComputeInitialize(outcome)

Next ==
    \/ InitializeStore
    \/ \E v \in Prefixes(WeightPool, buffers.m_totalWeights) : UploadWeights(v)
    \/ \E v \in Prefixes(BiasPool, buffers.m_totalBiases) : UploadBiases(v)
    \/ \E v \in Prefixes(InputPool, Load(buffers.m_topology, 0)) : SetInputs(v)
    \/ \E v \in Prefixes(ActivationPool, buffers.m_totalNeurons) : UploadActivations(v)
    \/ ClearActivations
    \/ ReadOutputs
    \/ ReadAllActivations
    \/ ReadWeights
    \/ InitializeDispatcher
    \/ \E i \in 0..Len(buffers.m_layerInfo) : ForwardLayer(i)
    \/ Forward

Spec == Init /\ [][Next]_vars

(***************************************************************************)
(* The dispatcher's life: on a store initialised before it is bound, the   *)
(* dispatcher is initialised and initialised again (each successful load   *)
(* creates a program object; at most MaxPrograms are created), and its     *)
(* operations are called in every state it can be in, with valid and       *)
(* invalid layer indices.                                                  *)
(***************************************************************************)
MaxPrograms == 2

NextDispatcher ==
    \/ /\ ~compute.m_buffers
       /\ \E net \in SpecNetworks : BuffersInitialize(net[1], net[2])
    \/ \E outcome \in LoadOutcomes :
         /\ outcome = "ok" => Cardinality(gl.programs) < MaxPrograms
         /\ ComputeInitialize(outcome)
    \/ \E i \in 0..(Len(buffers.m_layerInfo) + 1) : ForwardLayer(i)
    \/ Forward
    \/ GetLayerCount
    \/ \E v \in Prefixes(InputPool, Load(buffers.m_topology, 0)) : SetInputs(v)

SpecDispatcher == Init /\ [][NextDispatcher]_vars

(***************************************************************************)
(* The work-group count on its own (nn_compute.cpp:73-78): the count       *)
(* forwardLayer computes and dispatches for a descriptor whose outputSize  *)
(* is any 32-bit unsigned value of the sample: within MaxSpread of 0, of   *)
(* the work-group size and of the top of a 16-bit half, in the lowest, the *)
(* second and the highest 2^16 block.                                      *)
(***************************************************************************)
MaxSpread == 40

OutputSizes ==
    {U32(hi, lo) :
        hi \in {0, 1, U16 - 1},
        lo \in (0..MaxSpread)
               \cup ((WorkGroupSize - MaxSpread)..(WorkGroupSize + MaxSpread))
               \cup ((U16 - WorkGroupSize - MaxSpread)..(U16 - 1))}

DispatchFor(outputSize) ==
    LET workGroups == WorkGroupsU32(outputSize)
    IN  /\ last' = Call("workGroups", -1, <<outputSize.hi, outputSize.lo>>, <<>>,
                        <<workGroups>>)
        /\ glLog' = <<GL("glDispatchCompute", "", 0, workGroups)>>
        /\ UNCHANGED <<buffers, compute, renderer, gl, process, host, context>>

NextWorkGroups == \E outputSize \in OutputSizes : DispatchFor(outputSize)

SpecWorkGroups == Init /\ [][NextWorkGroups]_vars

(***************************************************************************)
(* The renderer on the store: the store is initialised and filled          *)
(* (weights, activations), the renderer is initialised once on it          *)
(* (main.cpp:148-153) and frames are drawn with connections shown or       *)
(* hidden (main.cpp:366), before and after the renderer is initialised and *)
(* while the store's contents go on changing.                              *)
(***************************************************************************)
NextRenderer ==
    \/ /\ ~renderer.m_buffers
       /\ \E net \in SpecNetworks : BuffersInitialize(net[1], net[2])
    \/ \E v \in Prefixes(WeightPool, buffers.m_totalWeights) : UploadWeights(v)
    \/ \E v \in Prefixes(ActivationPool, buffers.m_totalNeurons) : UploadActivations(v)
    \/ InitializeRenderer
    \/ \E showConnections \in BOOLEAN : Render(showConnections)

SpecRenderer == Init /\ [][NextRenderer]_vars

(***************************************************************************)
(* The store and the dispatcher over their lifetimes: the store is         *)
(* initialised, and initialised again with another network or with a       *)
(* topology of no or one layer size, before and after the dispatcher is    *)
(* bound to it; the dispatcher is initialised and  *)
(* initialised again (at most MaxPrograms programs are created), with      *)
(* profiling switched on or off and the last execution time read; single   *)
(* stages and whole passes are dispatched in between;                      *)
(* at the end the dispatcher is destroyed, then the store.                 *)
(***************************************************************************)
Running == process = "running"

ShortTopologies == {<<>>, <<2>>}

NextLifetime ==
    \/ /\ Running
       /\ \E net \in SpecNetworks : BuffersInitialize(net[1], net[2])
    \/ /\ Running
       /\ \E t \in ShortTopologies : BuffersInitialize(t, <<>>)
    \/ /\ Running
       /\ \E outcome \in LoadOutcomes :
            /\ outcome = "ok" => Cardinality(gl.programs) < MaxPrograms
            /\ ComputeInitialize(outcome)
    \/ /\ Running
       /\ \E i \in 0..Len(buffers.m_layerInfo) : ForwardLayer(i)
    \/ /\ Running
       /\ Forward
    \/ /\ Running
       /\ \E enabled \in BOOLEAN : SetProfilingEnabled(enabled)
    \/ /\ Running
       /\ GetLastExecutionTime
    \/ ComputeDestroy
    \/ BuffersDestroy

SpecLifetime == Init /\ [][NextLifetime]_vars

(***************************************************************************)
(* Properties of the layout (section 3 of the specification), checked      *)
(* under SpecLayout.  The sums are written anew here, by recursion on the  *)
(* layer index.                                                            *)
(***************************************************************************)
RECURSIVE WeightsBelow(_, _)
WeightsBelow(T, i) ==
    IF i = 0 THEN 0 ELSE WeightsBelow(T, i - 1) + At(T, i - 1) * At(T, i)

RECURSIVE OutputsBelow(_, _)
OutputsBelow(T, i) == IF i = 0 THEN 0 ELSE OutputsBelow(T, i - 1) + At(T, i)

\* The sum of topology[0..i-1], the first i widths.
RECURSIVE WidthsBelow(_, _)
WidthsBelow(T, i) == IF i = 0 THEN 0 ELSE WidthsBelow(T, i - 1) + At(T, i - 1)

LayerIndices == 0..(Len(buffers.m_layerInfo) - 1)

\* C3: after initialize, layer i connects topology[i] to topology[i+1], its
\* weightOffset is the sum of inputSize*outputSize over the layers below it and
\* its biasOffset the sum of their outputSize (both 0 for layer 0).
C3_ParameterOffsets ==
    buffers.m_topology # <<>> =>
        LET T == buffers.m_topology
            L == buffers.m_layerInfo
        IN  /\ Len(L) = Len(T) - 1
            /\ \A i \in LayerIndices :
                 /\ At(L, i).inputSize = At(T, i)
                 /\ At(L, i).outputSize = At(T, i + 1)
                 /\ At(L, i).weightOffset = WeightsBelow(T, i)
                 /\ At(L, i).biasOffset = OutputsBelow(T, i)

C3_Witness ==
    /\ last.op = "initialize"
    /\ buffers.m_topology = <<2, 2, 1, 2>>
    /\ buffers.m_weightsSSBO # 0
    /\ At(buffers.m_layerInfo, 2).weightOffset = 6
    /\ At(buffers.m_layerInfo, 2).biasOffset = 3

\* C4: each layer's output slice starts right after its input slice and is the
\* next layer's input slice.
C4_SliceChaining ==
    LET L == buffers.m_layerInfo
    IN  /\ \A i \in LayerIndices :
             At(L, i).outputOffset = At(L, i).inputOffset + At(L, i).inputSize
        /\ \A i \in LayerIndices :
             i + 1 \in LayerIndices => At(L, i + 1).inputOffset = At(L, i).outputOffset

C4_Witness ==
    /\ last.op = "initialize"
    /\ buffers.m_topology = <<2, 1, 2>>
    /\ At(buffers.m_layerInfo, 0).outputOffset = 2
    /\ At(buffers.m_layerInfo, 1).inputOffset = 2
    /\ At(buffers.m_layerInfo, 1).outputOffset = 3

\* C5: the totals are the sums over the layers (weights: inputSize*outputSize,
\* biases: outputSize, neurons: every entry of the topology), and the three
\* buffers a successful initialize creates hold exactly that many elements.
C5_TotalsAndBufferSizes ==
    buffers.m_topology # <<>> =>
        LET T == buffers.m_topology
        IN  /\ buffers.m_totalWeights = WeightsBelow(T, Len(T) - 1)
            /\ buffers.m_totalBiases = OutputsBelow(T, Len(T) - 1)
            /\ buffers.m_totalNeurons = WidthsBelow(T, Len(T))
            /\ buffers.m_weightsSSBO # 0 =>
                 /\ Cardinality({buffers.m_weightsSSBO, buffers.m_biasesSSBO,
                                 buffers.m_activationsSSBO}) = 3
                 /\ {buffers.m_weightsSSBO, buffers.m_biasesSSBO,
                     buffers.m_activationsSSBO} \subseteq DOMAIN gl.buffers
                 /\ Len(weightsBuf) = buffers.m_totalWeights
                 /\ Len(biasesBuf) = buffers.m_totalBiases
                 /\ Len(activationsBuf) = buffers.m_totalNeurons

C5_Witness ==
    /\ last.op = "initialize"
    /\ buffers.m_topology = <<2, 2, 1, 2>>
    /\ Len(weightsBuf) = 8
    /\ Len(biasesBuf) = 5
    /\ Len(activationsBuf) = 7

\* C6 as stated: the input offset of layer i is the sum of topology[0..i],
\* topology[i] included, and the output offset is the input offset plus inputSize.
C6_InputOffsetInclusive ==
    \A i \in LayerIndices :
        /\ At(buffers.m_layerInfo, i).inputOffset = WidthsBelow(buffers.m_topology, i + 1)
        /\ At(buffers.m_layerInfo, i).outputOffset =
               At(buffers.m_layerInfo, i).inputOffset + At(buffers.m_layerInfo, i).inputSize

\* C6 amended: the input offset of layer i is the sum of topology[0..i-1]
\* (topology[i] excluded, 0 for layer 0); the output offset is the input offset
\* plus inputSize, which is the sum of topology[0..i].
C6_InputOffsetExclusive ==
    \A i \in LayerIndices :
        /\ At(buffers.m_layerInfo, i).inputOffset = WidthsBelow(buffers.m_topology, i)
        /\ At(buffers.m_layerInfo, i).outputOffset =
               At(buffers.m_layerInfo, i).inputOffset + At(buffers.m_layerInfo, i).inputSize
        /\ At(buffers.m_layerInfo, i).outputOffset = WidthsBelow(buffers.m_topology, i + 1)

C6_Witness ==
    /\ last.op = "initialize"
    /\ buffers.m_topology = <<2, 1, 2>>
    /\ At(buffers.m_layerInfo, 0).inputOffset = 0
    /\ At(buffers.m_layerInfo, 1).inputOffset = 2
    /\ At(buffers.m_layerInfo, 1).outputOffset = 3

\* C7: the weight of connection (o, i) of layer l is element
\* weightOffset[l] + o*inputSize + i of the weight buffer; the map is a
\* bijection from the connections onto 0..totalWeights-1; and an initialised
\* renderer reads exactly that element for each connection, once per connection.
Connections ==
    UNION {{<<l, o, i>> : o \in 0..(At(buffers.m_layerInfo, l).outputSize - 1),
                          i \in 0..(At(buffers.m_layerInfo, l).inputSize - 1)}
           : l \in LayerIndices}

RowMajorIndex(c) ==
    At(buffers.m_layerInfo, c[1]).weightOffset
        + c[2] * At(buffers.m_layerInfo, c[1]).inputSize + c[3]

C7_RowMajorWeightIndex ==
    /\ \A c \in Connections : RowMajorIndex(c) \in 0..(buffers.m_totalWeights - 1)
    /\ \A c, d \in Connections : RowMajorIndex(c) = RowMajorIndex(d) => c = d
    /\ {RowMajorIndex(c) : c \in Connections} = 0..(buffers.m_totalWeights - 1)
    /\ renderer.m_connectionVAO # 0 =>
         /\ \A k \in DOMAIN renderer.reads :
              LET r == renderer.reads[k]
              IN  /\ <<r.layerIdx, r.outIdx, r.inIdx>> \in Connections
                  /\ r.weightIdx = RowMajorIndex(<<r.layerIdx, r.outIdx, r.inIdx>>)
                  /\ renderer.m_connectionVertices[2 * k].weight
                         = Load(weightsBuf, RowMajorIndex(<<r.layerIdx, r.outIdx, r.inIdx>>))
         /\ {<<renderer.reads[k].layerIdx, renderer.reads[k].outIdx,
               renderer.reads[k].inIdx>> : k \in DOMAIN renderer.reads} = Connections
         /\ Len(renderer.reads) = Cardinality(Connections)

C7_Witness ==
    /\ last.op = "rendererInitialize"
    /\ renderer.m_connectionVAO # 0
    /\ buffers.m_topology = <<1, 2, 2>>
    /\ buffers.m_weightsSSBO # 0
    /\ \E k \in DOMAIN renderer.reads :
         /\ renderer.reads[k].layerIdx = 0
         /\ renderer.reads[k].outIdx = 1
         /\ renderer.reads[k].inIdx = 0
         /\ renderer.reads[k].weightIdx = 1
    /\ \E k \in DOMAIN renderer.reads :
         /\ renderer.reads[k].layerIdx = 1
         /\ renderer.reads[k].outIdx = 1
         /\ renderer.reads[k].inIdx = 1
         /\ renderer.reads[k].weightIdx = 5

(***************************************************************************)
(* Properties of the store's operations and of the dispatcher (sections 4  *)
(* and 5 of the specification), checked under Spec.                        *)
(***************************************************************************)
Ready == compute.m_buffers /\ compute.m_computeProgram # 0

\* forwardLayer(0); ...; forwardLayer(k-1) called one after the other: what the
\* calls can leave, with the commands they issued.
RECURSIVE StagesUpTo(_, _, _, _)
StagesUpTo(server, obj, cmp, k) ==
    IF k = 0 THEN {[server |-> server, log |-> <<>>]}
    ELSE UNION {{[server |-> r.server, log |-> st.log \o r.log]
                 : r \in forwardLayer(st.server, obj, cmp, k - 1)}
                : st \in StagesUpTo(server, obj, cmp, k - 1)}

\* C1: on a Ready dispatcher forward() can leave exactly what forwardLayer(0),
\* ..., forwardLayer(n-1) in ascending order can leave: the same sequence of
\* device commands and the same buffers; and the forward() call made does so.
C1_ForwardIsStagesInOrder ==
    [][(Ready /\ last'.op = "forward") =>
          /\ forward(gl, buffers, compute)
                = StagesUpTo(gl, buffers, compute, Len(buffers.m_layerInfo))
          /\ [server |-> gl', log |-> glLog']
                \in StagesUpTo(gl, buffers, compute, Len(buffers.m_layerInfo))]_vars

XorWeights == <<1, 1, 1, 1, 1, -2>>   \* main.cpp:113-120

XorBiases == <<0, -3, 0>>             \* main.cpp:125-128, half-units

XorNetwork ==
    /\ buffers.m_topology = <<2, 2, 1>>
    /\ \A i \in LayerIndices : At(buffers.m_layerInfo, i).activationType = 0
    /\ weightsBuf = XorWeights
    /\ biasesBuf = XorBiases

C1_Witness ==
    /\ last.op = "forward"
    /\ Ready
    /\ XorNetwork
    /\ Len(glLog) = 16
    /\ glLog[6].n = 0 /\ glLog[14].n = 1
    /\ SubSeq(activationsBuf, 1, 2) = <<0, 2>>
    /\ activationsBuf[5] = 2

\* C2: a forwardLayer call that dispatched ends with a memory barrier after the
\* dispatch; afterwards shader reads see the stage's writes, and a host
\* read-back returns the buffer's contents, writes of returned stages included.
C2_BarrierCoversLaterStagesAndReadBack ==
    /\ (last.op = "forwardLayer" /\ glLog # <<>>) =>
         /\ glLog[Len(glLog)].cmd = "glMemoryBarrier"
         /\ glLog[Len(glLog) - 1].cmd = "glDispatchCompute"
    /\ \A n \in DOMAIN gl.buffers : gl.buffers[n].ssboView = gl.buffers[n].data
    /\ (last.op = "readAllActivations" /\ buffers.m_activationsSSBO # 0) =>
         last.ret = activationsBuf
    /\ (last.op = "readOutputs" /\ buffers.m_activationsSSBO # 0) =>
         last.ret = SubSeq(activationsBuf,
                           Len(activationsBuf) - Len(last.ret) + 1, Len(activationsBuf))

\* C8: on the XOR network a forward pass leaves output 1.0 for the inputs (0,1)
\* and (1,0) and 0.0 for (0,0) and (1,1).
C8_XorOutputs ==
    (/\ last.op = "forward"
     /\ Ready
     /\ XorNetwork
     /\ activationsBuf[1] \in {0, 2}
     /\ activationsBuf[2] \in {0, 2}) =>
        activationsBuf[5] = (IF activationsBuf[1] # activationsBuf[2] THEN 2 ELSE 0)

\* C9: forwardLayer(index) with index >= layerCount issues no GL command and
\* leaves the GL server (programs, bindings' targets, every buffer), the store
\* and the dispatcher as they were.
C9_OutOfRangeIssuesNoWork ==
    [][(last'.op = "forwardLayer" /\ last'.index >= Len(buffers.m_layerInfo)) =>
          /\ glLog' = <<>>
          /\ gl' = gl
          /\ buffers' = buffers
          /\ compute' = compute]_vars

C9_Witness ==
    /\ last.op = "forwardLayer"
    /\ Ready
    /\ buffers.m_topology = <<2, 2, 1>>
    /\ last.index = Len(buffers.m_layerInfo)
    /\ glLog = <<>>

\* C10: uploadWeights / uploadBiases with a length other than the store's
\* total issue no GL command and leave every buffer as it was; with the exact
\* length, on a store that has its buffers, the weight / bias buffer holds
\* exactly the values passed afterwards and every other buffer is as it was.
C10_UploadLengthChecked ==
    [][last'.op \in {"uploadWeights", "uploadBiases"} =>
          LET name == IF last'.op = "uploadWeights"
                      THEN buffers.m_weightsSSBO ELSE buffers.m_biasesSSBO
              expected == IF last'.op = "uploadWeights"
                          THEN buffers.m_totalWeights ELSE buffers.m_totalBiases
          IN  /\ buffers' = buffers
              /\ DOMAIN gl'.buffers = DOMAIN gl.buffers
              /\ \A b \in DOMAIN gl.buffers \ {name} : gl'.buffers[b] = gl.buffers[b]
              /\ Len(last'.values) # expected => (glLog' = <<>> /\ gl' = gl)
              /\ (Len(last'.values) = expected /\ name # 0) =>
                   /\ DataOf(gl', name) = last'.values
                   /\ Len(DataOf(gl, name)) = Len(last'.values)
                   /\ \E k \in DOMAIN glLog' : /\ glLog'[k].cmd = "glBufferSubData"
                                               /\ glLog'[k].obj = name]_vars

C10_Witness ==
    /\ last.op = "uploadWeights"
    /\ Len(last.values) = buffers.m_totalWeights - 1
    /\ glLog = <<>>
    /\ weightsBuf = XorWeights
    /\ biasesBuf = XorBiases

(***************************************************************************)
(* Properties of initialize's error handling (section 4 of the             *)
(* specification), checked under SpecConfig.                               *)
(***************************************************************************)
\* The store holds no buffer and shows what a never-initialised store shows.
Uninitialized ==
    /\ buffers = NeuralBuffersDefault
    /\ DOMAIN gl.buffers = {}

\* C11: initialize with an activation list whose length is not
\* topology.length - 1 (topology of length >= 2) leaves the store
\* uninitialised: no buffer is held or created and the store exposes no
\* topology, descriptor table or totals of the rejected call.
C11_MismatchLeavesUninitialized ==
    (/\ last.op = "initialize"
     /\ Len(last.values) >= 2
     /\ Len(last.aux) # Len(last.values) - 1) =>
        /\ Uninitialized
        /\ \A k \in DOMAIN glLog : glLog[k].cmd = "glDeleteBuffers"

\* C12: initialize with a topology of length 0 or 1, and any activation list,
\* returns having computed no descriptor and allocated no buffer, and leaves
\* the store uninitialised.
C12_ShortTopologyRejected ==
    (last.op = "initialize" /\ Len(last.values) < 2) =>
        /\ process = "running"
        /\ Uninitialized
        /\ \A k \in DOMAIN glLog : glLog[k].cmd = "glDeleteBuffers"

(***************************************************************************)
(* Properties of the dispatcher's states (section 5 of the specification), *)
(* checked under SpecDispatcher.                                           *)
(***************************************************************************)
\* Unbound: no store, no kernel, no parameter buffer.  Ready: a store, a
\* kernel and a parameter buffer.  Failed: a store and the null kernel handle.
DispatcherState(cmp) ==
    IF ~cmp.m_buffers /\ cmp.m_computeProgram = 0 /\ cmp.m_layerInfoUBO = 0
    THEN "Unbound"
    ELSE IF cmp.m_buffers /\ cmp.m_computeProgram # 0 /\ cmp.m_layerInfoUBO # 0
    THEN "Ready"
    ELSE IF cmp.m_buffers /\ cmp.m_computeProgram = 0
    THEN "Failed"
    ELSE "none"

\* C13: the dispatcher is always Unbound, Ready or Failed; an initialize that
\* returns true leaves it Ready and one that returns false leaves it Failed,
\* whatever it was; forward and forwardLayer called in Ready leave the
\* dispatcher's fields as they were; and a dispatcher that has left Unbound
\* never returns to it.
C13_DispatcherStates ==
    [][/\ DispatcherState(compute) \in {"Unbound", "Ready", "Failed"}
       /\ DispatcherState(compute') \in {"Unbound", "Ready", "Failed"}
       /\ (last'.op = "computeInitialize" /\ last'.ret = <<TRUE>>) =>
              /\ DispatcherState(compute') = "Ready"
              /\ compute'.m_computeProgram \in gl'.programs
              /\ compute'.m_layerInfoUBO \in DOMAIN gl'.buffers
       /\ (last'.op = "computeInitialize" /\ last'.ret = <<FALSE>>) =>
              DispatcherState(compute') = "Failed"
       /\ (last'.op \in {"forward", "forwardLayer"}
             /\ DispatcherState(compute) = "Ready") => compute' = compute
       /\ DispatcherState(compute) # "Unbound" =>
              DispatcherState(compute') # "Unbound"]_vars

\* A Ready dispatcher whose initialize was called again and failed.
C13_Witness ==
    /\ last.op = "computeInitialize"
    /\ last.ret = <<FALSE>>
    /\ DispatcherState(compute) = "Failed"
    /\ compute.m_layerInfoUBO # 0
    /\ Cardinality(gl.programs) = 1

\* C14: forward and forwardLayer(i), for every i, called on a dispatcher that
\* is not Ready issue no GL command and change nothing; getLayerCount returns
\* 0 when no store is bound and the store's number of descriptors otherwise.
C14_NotReadyIsSafe ==
    [][/\ (last'.op \in {"forward", "forwardLayer"}
             /\ DispatcherState(compute) # "Ready") =>
              /\ glLog' = <<>>
              /\ gl' = gl
              /\ buffers' = buffers
              /\ compute' = compute
       /\ last'.op = "getLayerCount" =>
              /\ DispatcherState(compute) = "Unbound" => last'.ret = <<0>>
              /\ DispatcherState(compute) # "Unbound" =>
                     last'.ret = <<Len(buffers.m_layerInfo)>>
              /\ gl' = gl /\ buffers' = buffers /\ compute' = compute]_vars

\* forwardLayer(0) on a Failed dispatcher bound to the XOR store.
C14_Witness ==
    /\ last.op = "forwardLayer"
    /\ last.index = 0
    /\ DispatcherState(compute) = "Failed"
    /\ buffers.m_topology = <<2, 2, 1>>
    /\ buffers.m_activationsSSBO # 0
    /\ glLog = <<>>

(***************************************************************************)
(* Frame and round-trip properties of the store's data operations          *)
(* (section 4 of the specification), checked under Spec.                   *)
(***************************************************************************)
\* Every buffer object other than name is as it was.
OtherBuffersUnchanged(name) ==
    /\ DOMAIN gl'.buffers = DOMAIN gl.buffers
    /\ \A b \in DOMAIN gl.buffers \ {name} : gl'.buffers[b] = gl.buffers[b]

\* C15: setInputs with topology[0] values leaves exactly these values in
\* elements 0..topology[0]-1 of the activation buffer and every other
\* activation element, the weights, the biases and the store's metadata as
\* they were; with any other length it issues no GL command and changes
\* nothing.
C15_SetInputsWritesInputSlice ==
    [][last'.op = "setInputs" =>
          LET n == buffers.m_topology[1]
              name == buffers.m_activationsSSBO
              before == DataOf(gl, name)
              after == DataOf(gl', name)
          IN  /\ buffers' = buffers
              /\ OtherBuffersUnchanged(name)
              /\ Len(after) = Len(before)
              /\ \A k \in DOMAIN before : k > n => after[k] = before[k]
              /\ (Len(last'.values) = n /\ name # 0) =>
                     SubSeq(after, 1, n) = last'.values
              /\ Len(last'.values) # n => (gl' = gl /\ glLog' = <<>>)]_vars

\* The input (1,1) written over the activations a forward pass on (0,1) left.
C15_Witness ==
    /\ last.op = "setInputs"
    /\ last.values = <<2, 2>>
    /\ XorNetwork
    /\ activationsBuf = <<2, 2, 2, 0, 2>>

(***************************************************************************)
(* C16.  Round trip: on an initialised store, a read that directly follows *)
(* an upload of the right length returns the uploaded vector:              *)
(* uploadWeights(W) then readWeights() returns W, and uploadActivations(A) *)
(* then readAllActivations() returns A.  (The store has no operation that  *)
(* reads the biases back, nn_buffers.h:77-93, so the bias half of the      *)
(* round trip has nothing to be stated on.)  Checked under Spec.           *)
(***************************************************************************)
RoundTrip(upload, expected, read) ==
    (/\ last.op = upload
     /\ Len(last.values) = expected
     /\ last'.op = read) => last'.ret = last.values

C16_UploadReadRoundTrip ==
    [][buffers.m_activationsSSBO # 0 =>
          /\ RoundTrip("uploadWeights", buffers.m_totalWeights, "readWeights")
          /\ RoundTrip("uploadActivations", buffers.m_totalNeurons,
                       "readAllActivations")]_vars

\* The weight half alone, which no shader write interferes with.
C16_WeightsRoundTrip ==
    [][buffers.m_activationsSSBO # 0 =>
          RoundTrip("uploadWeights", buffers.m_totalWeights, "readWeights")]_vars

(***************************************************************************)
(* C17.  readOutputs returns exactly topology[last] elements; the offset   *)
(* it reads at, totalNeurons - topology[last], is the last descriptor's    *)
(* outputOffset; and on a store that holds its buffers the elements        *)
(* returned are those of the activation buffer at that offset, as the      *)
(* buffer stands or as buffer reads may still observe it.  Checked under   *)
(* Spec.                                                                   *)
(***************************************************************************)
OutputSlice(view) ==
    LET info == buffers.m_layerInfo[Len(buffers.m_layerInfo)]
    IN  SubSeq(view, info.outputOffset + 1, info.outputOffset + info.outputSize)

C17_ReadOutputsIsLastOutputSlice ==
    [][last'.op = "readOutputs" =>
          LET topology == buffers.m_topology
              outputSize == topology[Len(topology)]
              info == buffers.m_layerInfo[Len(buffers.m_layerInfo)]
          IN  /\ Len(topology) >= 2
              /\ Len(last'.ret) = outputSize
              /\ info.outputSize = outputSize
              /\ info.outputOffset = buffers.m_totalNeurons - outputSize
              /\ buffers.m_activationsSSBO # 0 =>
                    last'.ret \in
                        {OutputSlice(gl.buffers[buffers.m_activationsSSBO].data),
                         OutputSlice(gl.buffers[buffers.m_activationsSSBO].updateView)}
    ]_vars

\* The XOR network holding the activations (1.0, 0.0, 0.5, 0.5, 0.0): the
\* output slice is the last element, unlike the one before it.
C17_Witness ==
    /\ last.op = "readOutputs"
    /\ buffers.m_topology = <<2, 2, 1>>
    /\ buffers.m_activationsSSBO # 0
    /\ activationsBuf = <<2, 0, 1, 1, 0>>
    /\ last.ret = <<0>>

(***************************************************************************)
(* C18.  clearActivations leaves every one of the totalNeurons elements of *)
(* the activation buffer zero, and the weight buffer, the bias buffer, the *)
(* topology and the descriptor table as they were.  Checked under Spec.    *)
(***************************************************************************)
ClearActivationsFrame ==
    /\ buffers' = buffers
    /\ OtherBuffersUnchanged(buffers.m_activationsSSBO)

C18_ClearActivationsZeroesAll ==
    [][(last'.op = "clearActivations" /\ buffers.m_activationsSSBO # 0) =>
          /\ DataOf(gl', buffers.m_activationsSSBO)
                = [k \in 1..buffers.m_totalNeurons |-> 0]
          /\ ClearActivationsFrame]_vars

\* The frame half alone: what clearActivations leaves untouched.
C18_ClearActivationsFrameOnly ==
    [][last'.op = "clearActivations" => ClearActivationsFrame]_vars

(***************************************************************************)
(* C19.  The read operations change no buffer's contents and no metadata   *)
(* of the store, and a readAllActivations that directly follows another    *)
(* returns what the first returned.  Checked under Spec.                   *)
(***************************************************************************)
ReadOps == {"readAllActivations", "readOutputs", "readWeights"}

ReadsChangeNothing ==
    last'.op \in ReadOps =>
        /\ buffers' = buffers
        /\ DOMAIN gl'.buffers = DOMAIN gl.buffers
        /\ \A b \in DOMAIN gl.buffers : gl'.buffers[b].data = gl.buffers[b].data

C19_ReadsArePure ==
    [][/\ ReadsChangeNothing
       /\ (last.op = "readAllActivations" /\ last'.op = "readAllActivations")
              => last'.ret = last.ret]_vars

\* The first half alone: no read changes a buffer's contents or the metadata.
C19_ReadsLeaveContents ==
    [][ReadsChangeNothing]_vars

(***************************************************************************)
(* C20.  For every 32-bit unsigned outputSize >= 1 the work-group count    *)
(* dispatched is ceil(outputSize / 256): workGroups >= 1,                  *)
(* workGroups * 256 >= outputSize and (workGroups - 1) * 256 < outputSize. *)
(* Products with 256 are compared half by half, as pairs                   *)
(* <<multiple of 2^16, rest>>.  Checked under SpecWorkGroups.              *)
(***************************************************************************)
Times256(n) == U32(n \div (U16 \div WorkGroupSize),
                   (n % (U16 \div WorkGroupSize)) * WorkGroupSize)

LessThan(a, b) == a.hi < b.hi \/ (a.hi = b.hi /\ a.lo < b.lo)

Covers(workGroups, outputSize) ==
    /\ workGroups >= 1
    /\ ~LessThan(Times256(workGroups), outputSize)
    /\ LessThan(Times256(workGroups - 1), outputSize)

C20_WorkGroupsCoverOutputs ==
    (last.op = "workGroups" /\ last.values # <<0, 0>>) =>
        Covers(last.ret[1], U32(last.values[1], last.values[2]))

\* The same for the sizes whose sum with 255 does not pass 2^32.
C20_WorkGroupsCoverBelowWrap ==
    (/\ last.op = "workGroups"
     /\ last.values # <<0, 0>>
     /\ ~(last.values[1] = U16 - 1 /\ last.values[2] > U16 - WorkGroupSize)) =>
        Covers(last.ret[1], U32(last.values[1], last.values[2]))

(***************************************************************************)
(* C21.  A successful dispatcher initialize leaves the store's descriptor  *)
(* table in the parameter buffer, and whenever forwardLayer dispatches,    *)
(* the parameter buffer holds the table the store holds at that moment     *)
(* (the one forwardLayer validates the index against and takes outputSize  *)
(* from), also after the store was initialised again.  Checked under       *)
(* SpecLifetime.                                                           *)
(***************************************************************************)
ParameterBuffer(server, cmp) == DataOf(server, cmp.m_layerInfoUBO)

UploadedOnInitialize ==
    (last'.op = "computeInitialize" /\ last'.ret = <<TRUE>>) =>
        /\ compute'.m_layerInfoUBO # 0
        /\ ParameterBuffer(gl', compute') = buffers.m_layerInfo

C21_ParameterBufferMatchesTable ==
    [][/\ UploadedOnInitialize
       /\ (last'.op = "forwardLayer" /\ glLog' # <<>>) =>
              ParameterBuffer(gl, compute) = buffers.m_layerInfo]_vars

\* The first half alone: what a successful initialize uploads.
C21_UploadedOnInitialize ==
    [][UploadedOnInitialize]_vars

(***************************************************************************)
(* C22.  A forwardLayer(k) that dispatches changes only the activation     *)
(* elements of layer k's output slice, as the store's table gives it: the  *)
(* weight buffer, the bias buffer, layer k's input slice and every other   *)
(* activation element hold what they held, and the input slice ends where  *)
(* the output slice starts or before.                                      *)
(***************************************************************************)
ForwardLayerWritesOutputSliceOnly ==
    (last'.op = "forwardLayer" /\ glLog' # <<>>) =>
        LET info == At(buffers.m_layerInfo, last'.index)
            a == buffers.m_activationsSSBO
        IN  /\ buffers' = buffers
            /\ DOMAIN gl'.buffers = DOMAIN gl.buffers
            /\ \A b \in DOMAIN gl.buffers \ {a} :
                   gl'.buffers[b].data = gl.buffers[b].data
            /\ info.inputOffset + info.inputSize <= info.outputOffset
            /\ \A k \in DOMAIN DataOf(gl, a) :
                   (k <= info.outputOffset \/ k > info.outputOffset + info.outputSize)
                       => DataOf(gl', a)[k] = DataOf(gl, a)[k]

\* Over the lifetimes of store and dispatcher (SpecLifetime).
C22_ForwardLayerFrame ==
    [][ForwardLayerWritesOutputSliceOnly]_vars

\* The same while the store is not initialised again once the dispatcher is
\* bound (Spec).
C22_ForwardLayerFrameBoundOnce ==
    [][Ready => ForwardLayerWritesOutputSliceOnly]_vars

(***************************************************************************)
(* C23.  The dispatcher releases each handle it created exactly once: when *)
(* its destruction ends no program, no timer query and no buffer other     *)
(* than the store's is left on the device, and each delete its destructor  *)
(* issues names an object that exists, each name once.  Checked under      *)
(* SpecLifetime (the dispatcher is the only creator of programs, queries   *)
(* and buffers besides the store).                                         *)
(***************************************************************************)
StoreBuffers(obj) == {obj.m_weightsSSBO, obj.m_biasesSSBO, obj.m_activationsSSBO} \ {0}

DeletesLiveOnce(log, live) ==
    /\ \A i \in DOMAIN log : log[i].obj \in live
    /\ \A i, j \in DOMAIN log : log[i] = log[j] => i = j

C23_DispatcherReleasesHandlesOnce ==
    [][last'.op = "~NeuralCompute" =>
          /\ gl'.programs = {}
          /\ gl'.queries = {}
          /\ DOMAIN gl'.buffers = StoreBuffers(buffers)
          /\ DeletesLiveOnce(glLog', gl.programs \cup gl.queries \cup DOMAIN gl.buffers)
      ]_vars

\* The second half alone: no handle is released twice.
C23_NoDoubleRelease ==
    [][last'.op = "~NeuralCompute" =>
          DeletesLiveOnce(glLog', gl.programs \cup gl.queries \cup DOMAIN gl.buffers)
      ]_vars

(***************************************************************************)
(* C24.  The store holds at every moment no buffer or exactly three, sized *)
(* to the totals of the initialize that created them.  An initialize and   *)
(* the destructor delete exactly the buffers the store held, each once and *)
(* before any buffer is created, and leave every other buffer on the       *)
(* device alone; after the destructor the store holds none.  Checked under *)
(* SpecLifetime.                                                           *)
(***************************************************************************)
StoreHoldsNoneOrThree(server, obj) ==
    \/ obj.m_weightsSSBO = 0 /\ obj.m_biasesSSBO = 0 /\ obj.m_activationsSSBO = 0
    \/ /\ Cardinality(StoreBuffers(obj)) = 3
       /\ StoreBuffers(obj) \subseteq DOMAIN server.buffers
       /\ Len(server.buffers[obj.m_weightsSSBO].data) = obj.m_totalWeights
       /\ Len(server.buffers[obj.m_biasesSSBO].data) = obj.m_totalBiases
       /\ Len(server.buffers[obj.m_activationsSSBO].data) = obj.m_totalNeurons

IsDelete(c) == c.cmd = "glDeleteBuffers"

TearsDownHeldBuffers ==
    /\ {glLog'[i].obj : i \in {j \in DOMAIN glLog' : IsDelete(glLog'[j])}}
           = StoreBuffers(buffers)
    /\ DeletesLiveOnce(SelectSeq(glLog', IsDelete), DOMAIN gl.buffers)
    /\ \A i, j \in DOMAIN glLog' :
           (IsDelete(glLog'[i]) /\ glLog'[j].cmd = "glGenBuffers") => i < j
    /\ DOMAIN gl'.buffers \ StoreBuffers(buffers')
           = DOMAIN gl.buffers \ StoreBuffers(buffers)

C24_TeardownAndRecreation ==
    [][/\ StoreHoldsNoneOrThree(gl, buffers)
       /\ StoreHoldsNoneOrThree(gl', buffers')
       /\ last'.op = "initialize" => TearsDownHeldBuffers
       /\ last'.op = "~NeuralBuffers" =>
              (TearsDownHeldBuffers /\ StoreBuffers(buffers') = {})]_vars

\* The store of a dispatcher bound on {1,2} is initialised again as {2,2,1}:
\* three buffers deleted, three created.
C24_Witness ==
    /\ last.op = "initialize"
    /\ buffers.m_topology = <<2, 2, 1>>
    /\ Len(ParameterBuffer(gl, compute)) = 1
    /\ Len(glLog) = 13
    /\ IsDelete(glLog[1])
    /\ Len(activationsBuf) = 5

(***************************************************************************)
(* C25.  Renderer::initialize and Renderer::render leave the store as it   *)
(* is: topology, descriptors, totals and handles, and the contents of the  *)
(* weight, bias and activation buffers; none of the commands they issue    *)
(* that define, write or delete a buffer names a buffer of the store.      *)
(* Checked under SpecRenderer.                                             *)
(***************************************************************************)
BufferWrites == {"glBufferData", "glBufferSubData", "glDeleteBuffers"}

C25_RendererNeverWritesStore ==
    [][last'.op \in {"rendererInitialize", "render"} =>
          /\ buffers' = buffers
          /\ \A b \in StoreBuffers(buffers) :
                 /\ b \in DOMAIN gl'.buffers
                 /\ gl'.buffers[b].data = gl.buffers[b].data
          /\ \A i \in DOMAIN glLog' :
                 glLog'[i].cmd \in BufferWrites => glLog'[i].obj \notin StoreBuffers(buffers)
      ]_vars

\* A frame with connections drawn, on the XOR network holding its weights.
C25_Witness ==
    /\ last.op = "render"
    /\ last.aux = <<TRUE>>
    /\ Len(glLog) = 11
    /\ buffers.m_topology = <<2, 2, 1>>
    /\ weightsBuf = <<1, 1, 1, 1, 1, -2>>
    /\ activationsBuf = <<2, 0, 1, 1, 0>>

(***************************************************************************)
(* C26.  The kernel loader returns 0 when the file cannot be read, the     *)
(* shader does not compile or the program does not link, and a program     *)
(* name otherwise; NeuralCompute::initialize returns false, with no        *)
(* parameter buffer generated and no program created, exactly in those     *)
(* three cases, and otherwise returns true holding the new program and a   *)
(* new parameter buffer.  Checked under SpecDispatcher.                    *)
(***************************************************************************)
LoadFailed(outcome) == outcome \in {"unreadable", "compile_error", "link_error"}

C26_LoaderNullOnFailure ==
    [][last'.op = "computeInitialize" =>
          LET outcome == last'.aux[1]
              generated == {i \in DOMAIN glLog' : glLog'[i].cmd = "glGenBuffers"}
          IN  /\ LoadFailed(outcome) <=> compute'.m_computeProgram = 0
              /\ LoadFailed(outcome) <=> last'.ret = <<FALSE>>
              /\ ~LoadFailed(outcome) <=> last'.ret = <<TRUE>>
              /\ LoadFailed(outcome) =>
                     /\ generated = {}
                     /\ gl'.programs = gl.programs
                     /\ DOMAIN gl'.buffers = DOMAIN gl.buffers
                     /\ compute'.m_layerInfoUBO = compute.m_layerInfoUBO
              /\ ~LoadFailed(outcome) =>
                     /\ Cardinality(generated) = 1
                     /\ compute'.m_computeProgram \in gl'.programs \ gl.programs
                     /\ compute'.m_layerInfoUBO \in DOMAIN gl'.buffers \ DOMAIN gl.buffers
      ]_vars

\* A link failure on a dispatcher that was Ready: false, handle 0, no buffer.
C26_Witness ==
    /\ last.op = "computeInitialize"
    /\ last.aux = <<"link_error">>
    /\ last.ret = <<FALSE>>
    /\ compute.m_computeProgram = 0
    /\ compute.m_layerInfoUBO # 0
    /\ glLog = <<>>

(***************************************************************************)
(* C27.  With profiling enabled, a forward() or forwardLayer() that        *)
(* dispatches measures the call with the timer query, and a                *)
(* getLastExecutionTime() that directly follows returns the time recorded  *)
(* (an elapsed time, not the initial 0).  Checked under SpecLifetime.      *)
(***************************************************************************)
Dispatches ==
    /\ last'.op \in {"forward", "forwardLayer"}
    /\ \E i \in DOMAIN glLog' : glLog'[i].cmd = "glDispatchCompute"

C27_ProfilingRecordsTime ==
    [][/\ (compute.m_profilingEnabled /\ Dispatches) =>
              /\ \E i \in DOMAIN glLog' : glLog'[i].cmd = "glBeginQuery"
              /\ compute'.m_lastExecutionTimeMs # 0
       /\ (/\ compute.m_profilingEnabled
           /\ last.op \in {"forward", "forwardLayer"}
           /\ \E i \in DOMAIN glLog : glLog[i].cmd = "glDispatchCompute"
           /\ last'.op = "getLastExecutionTime") => last'.ret # <<0>>]_vars

\* What the code does hold: the time read is the initial value throughout.
C27_ExecutionTimeStaysInitial ==
    compute.m_lastExecutionTimeMs = 0

(***************************************************************************)
(* The host loop of main.cpp.  A frame is one call of the update callback  *)
(* (main.cpp:221-347): the animation step, the keys 1-4, SPACE, then C.    *)
(* Its                                                                     *)
(* inputs are the keys found pressed and whether the frame was long enough *)
(* for the interpolation factor min(1, deltaTime * animationSpeed) to be   *)
(* 1.  A frame in progress is a record [server, log, h, spaceLog, index,   *)
(* seen, result]: the device, the GL commands so far, the locals, the GL   *)
(* commands of the SPACE handling, the layer it dispatched (or -1), the    *)
(* dispatched layer's input slice as the device held it at the dispatch,   *)
(* and the outputs read for the result line.                               *)
(***************************************************************************)
Tests == <<(<<0, 0>>), (<<0, 2>>), (<<2, 0>>), (<<2, 2>>)>>   \* main.cpp:182-187

\* The keys pressed in the frames considered: 2 and 4, inputs (0,1) and (1,1).
TestKeys == {2, 4}

\* The keys the loop polls: GLFW_KEY_1..4, GLFW_KEY_SPACE, GLFW_KEY_C.
KeyName(k) == <<"1", "2", "3", "4">>[k]

\* Mutant: a partial step is cut off toward the current value.
LerpTowardTruncating(current, target, full) ==
    IF full THEN target
    ELSE IF target > current THEN current + (target - current) \div 2
    ELSE current - (current - target) \div 2

\* currentActivations[i] += diff * lerpFactor (main.cpp:228-234), in
\* half-units: the whole way when the factor is 1, else half the way, to the
\* half-unit nearer the target.
LerpToward(current, target, full) ==
    IF full THEN target
    ELSE IF target > current THEN current + (target - current + 1) \div 2
    ELSE current - (current - target + 1) \div 2

\* Mutant: the stepped vector is not uploaded.
AnimationStepWithoutUpload(m, full) ==
    IF ~m.h.isAnimating THEN {m}
    ELSE LET allClose == m.h.currentActivations = m.h.targetActivations
             stepped == [i \in DOMAIN m.h.currentActivations |->
                            LerpToward(m.h.currentActivations[i],
                                       m.h.targetActivations[i], full)]
         IN  {[m EXCEPT !.h.currentActivations = stepped,
                        !.h.isAnimating = ~allClose]}

\* main.cpp:223-243
AnimationStep(m, full) ==
    IF ~m.h.isAnimating THEN {m}
    ELSE LET allClose == m.h.currentActivations = m.h.targetActivations
             stepped == [i \in DOMAIN m.h.currentActivations |->
                            LerpToward(m.h.currentActivations[i],
                                       m.h.targetActivations[i], full)]
         IN  {[m EXCEPT !.server = up.server, !.log = @ \o up.log,
                        !.h.currentActivations = stepped,
                        !.h.isAnimating = ~allClose]
              : up \in uploadActivations(m.server, buffers, stepped)}

\* Mutant: the activations are not cleared before the input is written.
SelectTestWithoutClear(m, k) ==
    UNION {{[m EXCEPT !.server = read.server,
                      !.log = @ \o set.log \o read.log,
                      !.h.ran = Append(@, KeyName(k)),
                      !.h.currentTest = k - 1,
                      !.h.currentLayer = 0,
                      !.h.isAnimating = FALSE,
                      !.h.currentActivations = read.ret,
                      !.h.targetActivations = read.ret]
            : read \in readAllActivations(set.server, buffers)}
           : set \in setInputs(m.server, buffers, Tests[k])}

\* main.cpp:254-263 (and 264-293): the test of key k is selected.
SelectTest(m, k) ==
    UNION {UNION {{[m EXCEPT !.server = read.server,
                             !.log = @ \o cleared.log \o set.log \o read.log,
                             !.h.ran = Append(@, KeyName(k)),
                             !.h.currentTest = k - 1,
                             !.h.currentLayer = 0,
                             !.h.isAnimating = FALSE,
                             !.h.currentActivations = read.ret,
                             !.h.targetActivations = read.ret]
                   : read \in readAllActivations(set.server, buffers)}
                  : set \in setInputs(cleared.server, buffers, Tests[k])}
           : cleared \in clearActivations(m.server, buffers)}

\* main.cpp:254-298: the four keys in turn, then the pressed states are kept.
RECURSIVE KeysFrom(_, _, _)
KeysFrom(ms, k, pressed) ==
    IF k > NumTests
    THEN {[m EXCEPT !.h.keyWasPressed = [j \in 1..NumTests |-> j \in pressed]] : m \in ms}
    ELSE KeysFrom(UNION {IF k \in pressed /\ ~m.h.keyWasPressed[k]
                         THEN SelectTest(m, k) ELSE {m} : m \in ms},
                  k + 1, pressed)

\* Mutant: the cursor is not advanced.
ComputeNextLayerKeepingCursor(m) ==
    LET k == m.h.currentLayer
        info == At(buffers.m_layerInfo, k)
        slice(server, offset, n) ==
            SubSeq(DataOf(server, buffers.m_activationsSSBO), offset + 1, offset + n)
    IN  UNION {UNION {UNION {
            {[m EXCEPT !.server = up.server,
                       !.log = @ \o current.log \o stage.log \o target.log \o up.log,
                       !.spaceLog = current.log \o stage.log \o target.log \o up.log,
                       !.index = k,
                       !.seen = slice(current.server, info.inputOffset, info.inputSize),
                       !.h.computed = slice(stage.server, info.outputOffset,
                                            info.outputSize),
                       !.h.currentLayer = k,
                       !.h.currentActivations = current.ret,
                       !.h.targetActivations = target.ret,
                       !.h.isAnimating = TRUE]
             : up \in uploadActivations(target.server, buffers, current.ret)}
            : target \in readAllActivations(stage.server, buffers)}
            : stage \in forwardLayer(current.server, buffers, compute, k)}
            : current \in readAllActivations(m.server, buffers)}

\* main.cpp:305-321: the next layer is computed and the animation started.
ComputeNextLayer(m) ==
    LET k == m.h.currentLayer
        info == At(buffers.m_layerInfo, k)
        slice(server, offset, n) ==
            SubSeq(DataOf(server, buffers.m_activationsSSBO), offset + 1, offset + n)
    IN  UNION {UNION {UNION {
            {[m EXCEPT !.server = up.server,
                       !.log = @ \o current.log \o stage.log \o target.log \o up.log,
                       !.spaceLog = current.log \o stage.log \o target.log \o up.log,
                       !.index = k,
                       !.seen = slice(current.server, info.inputOffset, info.inputSize),
                       !.h.computed = slice(stage.server, info.outputOffset,
                                            info.outputSize),
                       !.h.currentLayer = k + 1,
                       !.h.currentActivations = current.ret,
                       !.h.targetActivations = target.ret,
                       !.h.isAnimating = TRUE]
             : up \in uploadActivations(target.server, buffers, current.ret)}
            : target \in readAllActivations(stage.server, buffers)}
            : stage \in forwardLayer(current.server, buffers, compute, k)}
            : current \in readAllActivations(m.server, buffers)}

\* main.cpp:323-326: the outputs are read for the result line.
ReportResult(m) ==
    IF m.h.currentLayer # m.h.totalLayers THEN {m}
    ELSE {[m EXCEPT !.server = out.server, !.log = @ \o out.log,
                    !.spaceLog = @ \o out.log, !.result = out.ret]
          : out \in readOutputs(m.server, buffers)}

\* main.cpp:301-335
SpaceHandling(m, spacePressed) ==
    LET entered == [m EXCEPT !.h.ran = Append(@, "SPACE")]
        handled ==
            IF spacePressed /\ ~m.h.spaceWasPressed
            THEN IF m.h.currentLayer < m.h.totalLayers
                 THEN UNION {ReportResult(c) : c \in ComputeNextLayer(entered)}
                 ELSE {entered}
            ELSE {m}
    IN  {[c EXCEPT !.h.spaceWasPressed = spacePressed] : c \in handled}

\* Mutant: the state of the key is not kept for the next frame.
ToggleConnectionsForgettingKey(m, cPressed) ==
    IF cPressed /\ ~m.h.cWasPressed
    THEN [m EXCEPT !.h.ran = Append(@, "C"),
                   !.h.showConnections = ~@]
    ELSE m

\* main.cpp:337-346: C toggles the connection lines.
ToggleConnections(m, cPressed) ==
    IF cPressed /\ ~m.h.cWasPressed
    THEN [m EXCEPT !.h.ran = Append(@, "C"),
                   !.h.showConnections = ~@,
                   !.h.cWasPressed = cPressed]
    ELSE [m EXCEPT !.h.cWasPressed = cPressed]

\* The update callback (main.cpp:221-347).
Frame(server, h, keysPressed, spacePressed, cPressed, full) ==
    LET polled == {KeyName(k) : k \in keysPressed}
                      \cup (IF spacePressed THEN {"SPACE"} ELSE {})
                      \cup (IF cPressed THEN {"C"} ELSE {})
        start == [server |-> server, log |-> <<>>,
                  h |-> [h EXCEPT !.pressed = polled, !.ran = <<>>],
                  spaceLog |-> <<>>, index |-> -1, seen |-> <<>>, result |-> <<>>]
    IN  {ToggleConnections(s, cPressed)
         : s \in UNION {SpaceHandling(m, spacePressed)
                        : m \in KeysFrom(AnimationStep(start, full), 1, keysPressed)}}

Update(keysPressed, spacePressed, cPressed, full) ==
    /\ host.pc = "loop"
    /\ \E m \in Frame(gl, host, keysPressed, spacePressed, cPressed, full) :
           /\ gl' = m.server
           /\ glLog' = m.log
           /\ host' = [m.h EXCEPT !.tick = 1 - @]
           /\ last' = Call("update", m.index, m.seen, m.spaceLog, m.result)
    /\ UNCHANGED <<buffers, compute, renderer, process, context>>

\* main.cpp:189-202: the loop's locals, the first input, the first read.
HostStart ==
    /\ host.pc = "setup"
    /\ \E set \in setInputs(gl, buffers, Tests[2]) :
         \E read \in readAllActivations(set.server, buffers) :
           /\ gl' = read.server
           /\ glLog' = set.log \o read.log
           /\ host' = [host EXCEPT !.pc = "loop",
                                   !.currentTest = 1,
                                   !.currentLayer = 0,
                                   !.totalLayers = getLayerCount(buffers, compute),
                                   !.currentActivations = read.ret,
                                   !.targetActivations = read.ret,
                                   !.isAnimating = FALSE]
           /\ last' = Call("start", -1, Tests[2], <<>>, read.ret)
    /\ UNCHANGED <<buffers, compute, renderer, process, context>>

(***************************************************************************)
(* main as it runs (main.cpp:104-368): the XOR network is set up           *)
(* (104-131), the dispatcher and the renderer are initialised (139-153;    *)
(* main returns when either fails), the loop is started and frames follow  *)
(* one another.                                                            *)
(***************************************************************************)
NextHost ==
    \/ /\ last.op = "construct"
       /\ BuffersInitialize(<<2, 2, 1>>, <<0, 0>>)
    \/ /\ last.op = "initialize"
       /\ UploadWeights(XorWeights)
    \/ /\ last.op = "uploadWeights"
       /\ UploadBiases(XorBiases)
    \/ /\ last.op = "uploadBiases"
       /\ \E outcome \in LoadOutcomes : ComputeInitialize(outcome)
    \/ /\ last.op = "computeInitialize" /\ last.ret = <<TRUE>>
       /\ \E o1 \in {"ok", "link_error"} :
            \E o2 \in {"ok", "link_error"} : RendererInitialize(o1, o2)
    \/ /\ last.op = "rendererInitialize"
       /\ renderer.m_neuronProgram # 0 /\ renderer.m_connectionProgram # 0
       /\ HostStart
    \/ \E keysPressed \in SUBSET TestKeys :
         \E spacePressed \in BOOLEAN :
           \E cPressed \in BOOLEAN :
             \E full \in BOOLEAN : Update(keysPressed, spacePressed, cPressed, full)

SpecHost == Init /\ [][NextHost]_vars

(***************************************************************************)
(* C28.  In the host loop every forwardLayer(k) with k >= 1 is dispatched  *)
(* while the device holds, in layer k's input slice, the values            *)
(* forwardLayer(k-1) computed; and when the cursor reaches totalLayers the *)
(* target activations are those of a single forward() on the selected      *)
(* input.  Checked under SpecHost.                                         *)
(***************************************************************************)
\* What forward() leaves on a store holding the input and zeros elsewhere.
ForwardOn(inputs) ==
    LET a == buffers.m_activationsSSBO
        fresh == [k \in 1..buffers.m_totalNeurons |->
                     IF k <= Len(inputs) THEN inputs[k] ELSE 0]
    IN  {DataOf(r.server, a)
         : r \in forward([gl EXCEPT !.buffers[a] = Coherent(fresh)], buffers, compute)}

StageSeesPreviousStage ==
    (last'.op = "update" /\ last'.index >= 1) => last'.values = host.computed

C28_StagesSeePreviousResults ==
    [][/\ StageSeesPreviousStage
       /\ (/\ last'.op = "update"
           /\ last'.index >= 0
           /\ host'.currentLayer = host'.totalLayers) =>
              host'.targetActivations \in ForwardOn(Tests[host'.currentTest + 1])]_vars

(***************************************************************************)
(* C29.  When the SPACE press that computes the last layer completes the   *)
(* pass, the outputs read for the result line are the output slice as that *)
(* stage left it.  Checked under SpecHost.                                 *)
(***************************************************************************)
C29_ResultIsComputedOutput ==
    [][(last'.op = "update" /\ last'.ret # <<>>) => last'.ret = host'.computed]_vars

(***************************************************************************)
(* C30.  The cursor stays within 0..totalLayers.  A frame dispatches at    *)
(* most one stage, on SPACE going down with the cursor below totalLayers:  *)
(* its index is the cursor (0 when a key selected an input earlier in the  *)
(* frame), it is below totalLayers, and the cursor moves one past it, so   *)
(* the indices between two selections ascend by one.  SPACE going down     *)
(* with the cursor at totalLayers issues no GL command and leaves the      *)
(* cursor.  Checked under SpecHost.                                        *)
(***************************************************************************)
CursorInRange(h) == 0 <= h.currentLayer /\ h.currentLayer <= h.totalLayers

Selected == \E k \in 1..NumTests : host'.keyWasPressed[k] /\ ~host.keyWasPressed[k]

SpaceDown == host'.spaceWasPressed /\ ~host.spaceWasPressed

CursorAtSpace == IF Selected THEN 0 ELSE host.currentLayer

DispatchedIndices(log) ==
    [i \in 1..Len(SelectSeq(log, LAMBDA c : c.cmd = "glUniform1ui")) |->
        SelectSeq(log, LAMBDA c : c.cmd = "glUniform1ui")[i].n]

C30_CursorDiscipline ==
    [][/\ CursorInRange(host)
       /\ CursorInRange(host')
       /\ last'.op = "update" =>
              /\ DispatchedIndices(glLog')
                     = (IF last'.index >= 0 THEN <<last'.index>> ELSE <<>>)
              /\ last'.index >= 0 <=> (SpaceDown /\ CursorAtSpace < host.totalLayers)
              /\ last'.index >= 0 =>
                     /\ last'.index = CursorAtSpace
                     /\ last'.index < host.totalLayers
                     /\ host'.currentLayer = last'.index + 1
              /\ last'.index < 0 => host'.currentLayer = CursorAtSpace
              /\ (SpaceDown /\ CursorAtSpace = host.totalLayers) => last'.aux = <<>>
      ]_vars

\* The frame that dispatched the last layer: index 1 with the cursor at 1.
C30_Witness ==
    /\ last.op = "update"
    /\ last.index = 1
    /\ host.currentLayer = 2
    /\ host.totalLayers = 2
    /\ host.spaceWasPressed

(***************************************************************************)
(* C31.  At the end of every update callback (and when the loop starts),   *)
(* if isAnimating is false the device activation buffer,                   *)
(* currentActivations and targetActivations are element-wise equal.        *)
(* Checked under SpecHost.                                                 *)
(***************************************************************************)
DeviceActivations == DataOf(gl, buffers.m_activationsSSBO)

C31_IdleDeviceMatchesHost ==
    (host.pc = "loop" /\ ~host.isAnimating) =>
        /\ host.currentActivations = host.targetActivations
        /\ DeviceActivations = host.currentActivations

\* Both stages have been dispatched and the last animation has ended.
C31_Witness ==
    /\ last.op = "update"
    /\ ~host.isAnimating
    /\ host.currentLayer = 2
    /\ DeviceActivations = host.targetActivations
    /\ \E i \in 3..Len(DeviceActivations) : DeviceActivations[i] > 0

(***************************************************************************)
(* C32.  A frame in which a key 1-4 goes down (and SPACE computes nothing  *)
(* afterwards) ends with currentLayer = 0, isAnimating false, the          *)
(* activation buffer holding the selected input in its first topology[0]   *)
(* elements and zero in every other, and currentActivations =              *)
(* targetActivations = that buffer; the frame's last two buffer writes are *)
(* the clear of the whole buffer and then the input write.  Checked under  *)
(* SpecHost.                                                               *)
(***************************************************************************)
InputThenZeros(inputs) ==
    [k \in 1..buffers.m_totalNeurons |-> IF k <= Len(inputs) THEN inputs[k] ELSE 0]

WritesOf(log) == SelectSeq(log, LAMBDA c : c.cmd = "glBufferSubData")

ClearThenInputWrite(log) ==
    LET w == WritesOf(log)
    IN  /\ Len(w) >= 2
        /\ w[Len(w) - 1].n = buffers.m_totalNeurons
        /\ w[Len(w)].n = buffers.m_topology[1]

NoKeyDown(keysPressed, spacePressed, cPressed) ==
    /\ \A k \in keysPressed : host.keyWasPressed[k]
    /\ spacePressed => host.spaceWasPressed
    /\ cPressed => host.cWasPressed

HostFrames ==
    \E keysPressed \in SUBSET TestKeys :
      \E spacePressed \in BOOLEAN :
        \E full \in BOOLEAN :
          /\ host.isAnimating => NoKeyDown(keysPressed, spacePressed, FALSE)
          /\ Update(keysPressed, spacePressed, FALSE, full)

NextHostFair ==
    \/ /\ last.op = "construct"
       /\ BuffersInitialize(<<2, 2, 1>>, <<0, 0>>)
    \/ /\ last.op = "initialize"
       /\ UploadWeights(XorWeights)
    \/ /\ last.op = "uploadWeights"
       /\ UploadBiases(XorBiases)
    \/ /\ last.op = "uploadBiases"
       /\ \E outcome \in LoadOutcomes : ComputeInitialize(outcome)
    \/ /\ last.op = "computeInitialize" /\ last.ret = <<TRUE>>
       /\ \E o1 \in {"ok", "link_error"} :
            \E o2 \in {"ok", "link_error"} : RendererInitialize(o1, o2)
    \/ /\ last.op = "rendererInitialize"
       /\ renderer.m_neuronProgram # 0 /\ renderer.m_connectionProgram # 0
       /\ HostStart
    \/ HostFrames

SpecHostFair == Init /\ [][NextHostFair]_vars /\ WF_vars(HostFrames)

(***************************************************************************)
(* C33.  Once an animation has been started and no further key goes down,  *)
(* the animation eventually ends (isAnimating becomes false); and the      *)
(* frame in which the animation step ends it leaves every element of       *)
(* currentActivations at its target and the device activation buffer equal *)
(* to targetActivations.  Checked under SpecHostFair.                      *)
(***************************************************************************)
AnimationEndsAtTarget ==
    (/\ last'.op = "update"
     /\ host.isAnimating
     /\ ~host'.isAnimating
     /\ ~Selected) =>
        /\ host'.currentActivations = host'.targetActivations
        /\ DeviceActivations' = host'.targetActivations

SetInputsOnEmpty(inputs) ==
    /\ buffers.m_topology = <<>>
    /\ \E outcome \in {"fault", "differs", "equals"} :
         \E after \in (IF outcome = "equals"
                       THEN UploadTo(gl, buffers.m_activationsSSBO, Len(inputs), inputs)
                       ELSE {[server |-> gl, log |-> <<>>]}) :
           /\ gl' = after.server
           /\ glLog' = after.log
           /\ process' = (IF outcome = "fault" THEN "aborted" ELSE process)
           /\ last' = Call("setInputs", -1, inputs, <<"m_topology[0] out of range">>, <<>>)
    /\ UNCHANGED <<buffers, compute, renderer, host, context>>

(***************************************************************************)
(* A store on which no initialize has succeeded: fresh, or after           *)
(* initialize calls whose activation list is one too long                  *)
(* (nn_buffers.cpp:24-28), with the data operations called on it with      *)
(* vectors of the expected length, one shorter and one longer.             *)
(***************************************************************************)
RejectedNetworks ==
    {<<t, [k \in 1..Len(t) |-> 0]>> : t \in ConfigTopologies \ {<<>>}}

NextUnready ==
    \/ Running /\ \E net \in RejectedNetworks : BuffersInitialize(net[1], net[2])
    \/ Running /\ \E v \in Prefixes(WeightPool, buffers.m_totalWeights) : UploadWeights(v)
    \/ Running /\ \E v \in Prefixes(BiasPool, buffers.m_totalBiases) : UploadBiases(v)
    \/ Running /\ \E v \in Prefixes(InputPool, Load(buffers.m_topology, 0)) : SetInputs(v)
    \/ Running /\ \E v \in Prefixes(InputPool, 0) : SetInputsOnEmpty(v)
    \/ Running /\ \E v \in Prefixes(ActivationPool, buffers.m_totalNeurons) :
                      UploadActivations(v)
    \/ Running /\ ClearActivations

SpecUnready == Init /\ [][NextUnready]_vars

(***************************************************************************)
(* C34.  On a store that holds no buffers (no initialize has succeeded),   *)
(* every call of uploadWeights, uploadBiases, setInputs, uploadActivations *)
(* and clearActivations issues no glBufferSubData, reads no element of the *)
(* topology that is not there, returns, and leaves the device as it was.   *)
(* Checked under SpecUnready.                                              *)
(***************************************************************************)
DataOps == {"uploadWeights", "uploadBiases", "setInputs", "uploadActivations",
            "clearActivations"}

C34_UnreadyStoreAcceptsNothing ==
    [][(last'.op \in DataOps /\ StoreBuffers(buffers) = {}) =>
          /\ WritesOf(glLog') = <<>>
          /\ last'.aux = <<>>
          /\ process' = process
          /\ gl' = gl]_vars

\* What does hold: no data operation changes what the device holds.
C34_UnreadyStoreKeepsDevice ==
    [][(last'.op \in DataOps /\ StoreBuffers(buffers) = {}) => gl' = gl]_vars

(***************************************************************************)
(* C35.  On a Ready dispatcher forward() leaves the input slice (the first *)
(* topology[0] activations), every weight and every bias as they were, and *)
(* a second forward() right after it leaves the activation buffer as the   *)
(* first left it.  Checked over the lifetimes of store and dispatcher      *)
(* (SpecLifetime).                                                         *)
(***************************************************************************)
ForwardPreservesInputsAndRepeats ==
    (last'.op = "forward" /\ DispatcherState(compute) = "Ready") =>
        LET a == buffers.m_activationsSSBO
        IN  /\ DataOf(gl', buffers.m_weightsSSBO) = DataOf(gl, buffers.m_weightsSSBO)
            /\ DataOf(gl', buffers.m_biasesSSBO) = DataOf(gl, buffers.m_biasesSSBO)
            /\ \A k \in DOMAIN DataOf(gl, a) :
                   k <= Load(buffers.m_topology, 0) => DataOf(gl', a)[k] = DataOf(gl, a)[k]
            /\ \A again \in forward(gl', buffers, compute) :
                   DataOf(again.server, a) = DataOf(gl', a)

C35_ForwardIdempotent ==
    [][ForwardPreservesInputsAndRepeats]_vars

\* The same while the store is not initialised again once the dispatcher is
\* bound (Spec).
C35_ForwardIdempotentBoundOnce ==
    [][Ready => ForwardPreservesInputsAndRepeats]_vars

(***************************************************************************)
(* C36.  The offsets the renderer accumulates in generateConnections agree *)
(* with the store's descriptor table: for every connection of layer l the  *)
(* local neuronOffset is layerInfo[l].inputOffset and the local            *)
(* weightOffset is layerInfo[l].weightOffset; both position indices used   *)
(* are below the number of neuron positions generated, which is            *)
(* totalNeurons; every layer is visited; and the connection count is the   *)
(* store's total weight count, with two vertices per connection.  Checked  *)
(* under SpecLayout.                                                       *)
(***************************************************************************)
C36_RendererOffsetsAgree ==
    renderer.m_connectionVAO # 0 =>
        /\ Len(renderer.m_neuronPositions) = buffers.m_totalNeurons
        /\ renderer.m_totalNeurons = buffers.m_totalNeurons
        /\ \A k \in DOMAIN renderer.reads :
             LET r == renderer.reads[k]
             IN  /\ r.layerIdx \in LayerIndices
                 /\ LET info == At(buffers.m_layerInfo, r.layerIdx)
                    IN  /\ r.startIdx - r.inIdx = info.inputOffset
                        /\ r.endIdx - r.outIdx - info.inputSize = info.inputOffset
                        /\ r.weightIdx - r.outIdx * info.inputSize - r.inIdx
                               = info.weightOffset
                 /\ r.startIdx < Len(renderer.m_neuronPositions)
                 /\ r.endIdx < Len(renderer.m_neuronPositions)
        /\ \A l \in LayerIndices : \E k \in DOMAIN renderer.reads :
               renderer.reads[k].layerIdx = l
        /\ renderer.m_connectionCount = buffers.m_totalWeights
        /\ Len(renderer.m_connectionVertices) = 2 * renderer.m_connectionCount

\* A three-layer store: the last layer's connections start at neuron 2 + 1.
C36_Witness ==
    /\ last.op = "rendererInitialize"
    /\ renderer.m_connectionVAO # 0
    /\ buffers.m_topology = <<2, 1, 2, 2>>
    /\ renderer.m_connectionCount = 8
    /\ \E k \in DOMAIN renderer.reads :
         /\ renderer.reads[k].layerIdx = 2
         /\ renderer.reads[k].startIdx = 4
         /\ renderer.reads[k].endIdx = 6
         /\ renderer.reads[k].weightIdx = 7

(***************************************************************************)
(* C37.  The key handlers are edge-triggered: in every frame the handlers  *)
(* entered are, each once, those of the keys found pressed in this frame   *)
(* and not in the frame before (none is pressed before the first frame),   *)
(* so a handler runs once per press, in the first frame that sees the key  *)
(* down, and not again while the key stays down.  Keys 1-4 select an       *)
(* input, C toggles the connections, SPACE enters the compute-next-layer   *)
(* handler, which dispatches a stage while the cursor is below             *)
(* totalLayers.  Checked under SpecHost.                                   *)
(***************************************************************************)
Ran(h) == {h.ran[i] : i \in DOMAIN h.ran}

C37_KeysEdgeTriggered ==
    [][last'.op = "update" =>
          /\ Ran(host') = host'.pressed \ host.pressed
          /\ Len(host'.ran) = Cardinality(Ran(host'))
          /\ host'.showConnections = (IF "C" \in Ran(host') THEN ~host.showConnections
                                      ELSE host.showConnections)
          /\ Selected <=> (\E k \in 1..NumTests : KeyName(k) \in Ran(host'))
          /\ last'.index >= 0 => "SPACE" \in Ran(host')
          /\ ("SPACE" \in Ran(host') /\ CursorAtSpace < host.totalLayers) =>
                 last'.index >= 0]_vars

\* SPACE, C and key 2 are all held over from the frame before: nothing runs,
\* though a stage has been dispatched and the connections toggled earlier.
C37_Witness ==
    /\ last.op = "update"
    /\ host.pressed = {"2", "SPACE", "C"}
    /\ host.ran = <<>>
    /\ host.currentLayer = 1
    /\ ~host.showConnections

(***************************************************************************)
(* The shader loader with the objects it handles (shader_loader.cpp:6-123) *)
(* A path through a load names, per stage, whether the file is read and    *)
(* whether the shader compiles, and whether the program links:             *)
(* [read, compile, link].  A run in progress is a record [live, log]: the  *)
(* shader names in use and the GL commands issued so far.  Shader names    *)
(* are drawn from their own pool; only the identity of the objects         *)
(* matters.                                                                *)
(***************************************************************************)
MaxStages == 3         \* shader_loader.cpp:48-50: vertex, geometry, fragment

LoadPaths(n) ==
    [read : SeqsOf(BOOLEAN, n), compile : SeqsOf(BOOLEAN, n), link : BOOLEAN]

\* shader_loader.cpp:12, 31-32, 59-61: the stage types, in the order compiled.
StageTypes(n) ==
    IF n = 1 THEN <<"GL_COMPUTE_SHADER">>
    ELSE IF n = 2 THEN <<"GL_VERTEX_SHADER", "GL_FRAGMENT_SHADER">>
    ELSE <<"GL_VERTEX_SHADER", "GL_GEOMETRY_SHADER", "GL_FRAGMENT_SHADER">>

\* ShaderLoader::compileShader (shader_loader.cpp:93-106)
compileShaderRun(run, type, compiles) ==
    LET shader == FreshName(run.live)
        made == <<GL("glCreateShader", type, shader, 0),
                  GL("glShaderSource", type, shader, 1),
                  GL("glCompileShader", type, shader, 0)>>
    IN  IF ~compiles
        THEN [shader |-> 0, live |-> run.live,
              log |-> run.log \o made \o <<GL("glDeleteShader", type, shader, 0)>>]
        ELSE [shader |-> shader, live |-> run.live \cup {shader}, log |-> run.log \o made]

\* ShaderLoader::linkProgram (shader_loader.cpp:108-123), with its commands.
linkProgramRun(server, shaders, links) ==
    LET program == FreshName(server.programs)
        made == <<GL("glCreateProgram", "", program, 0)>>
                \o [k \in 1..Len(shaders) |-> GL("glAttachShader", "", program, shaders[k])]
                \o <<GL("glLinkProgram", "", program, 0)>>
        linked == linkProgram(server, IF links THEN "ok" ELSE "link_error")
    IN  [program |-> linked.program, server |-> linked.server,
         log |-> IF links THEN made
                 ELSE made \o <<GL("glDeleteProgram", "", program, 0)>>]

\* The glDeleteShader calls on the shaders that are not 0, in order.
DeleteShaders(shaders) ==
    LET kept == SelectSeq(shaders, LAMBDA sh : sh # 0)
    IN  [k \in 1..Len(kept) |-> GL("glDeleteShader", "", kept[k], 0)]

\* The stages compiled one after the other (shader_loader.cpp:31-32, 59-61).
RECURSIVE CompileStages(_, _, _, _)
CompileStages(run, types, compiles, shaders) ==
    IF Len(shaders) = Len(types) THEN [run |-> run, shaders |-> shaders]
    ELSE LET k == Len(shaders) + 1
             c == compileShaderRun(run, types[k], compiles[k])
         IN  CompileStages([live |-> c.live, log |-> c.log], types, compiles,
                           Append(shaders, c.shader))

\* ShaderLoader::loadComputeShader (shader_loader.cpp:6-21)
loadComputeShaderRun(server, path) ==
    IF ~path.read[1] THEN [program |-> 0, server |-> server, log |-> <<>>]
    ELSE LET c == compileShaderRun([live |-> {}, log |-> <<>>],
                                   "GL_COMPUTE_SHADER", path.compile[1])
         IN  IF c.shader = 0 THEN [program |-> 0, server |-> server, log |-> c.log]
             ELSE LET l == linkProgramRun(server, <<c.shader>>, path.link)
                  IN  [program |-> l.program, server |-> l.server,
                       log |-> c.log \o l.log \o DeleteShaders(<<c.shader>>)]

\* Mutant: when a stage fails to compile the function returns at once.
loadShaderProgramRunLeavingCompiled(server, n, path) ==
    IF \E k \in 1..n : ~path.read[k]
    THEN [program |-> 0, server |-> server, log |-> <<>>]
    ELSE LET c == CompileStages([live |-> {}, log |-> <<>>], StageTypes(n),
                                path.compile, <<>>)
         IN  IF \E k \in 1..n : c.shaders[k] = 0
             THEN [program |-> 0, server |-> server, log |-> c.run.log]
             ELSE LET l == linkProgramRun(server, c.shaders, path.link)
                  IN  [program |-> l.program, server |-> l.server,
                       log |-> c.run.log \o l.log \o DeleteShaders(c.shaders)]

\* ShaderLoader::loadShaderProgram, the overloads of two and of three stages
\* (shader_loader.cpp:23-46, 48-77).
loadShaderProgramRun(server, n, path) ==
    IF \E k \in 1..n : ~path.read[k]
    THEN [program |-> 0, server |-> server, log |-> <<>>]
    ELSE LET c == CompileStages([live |-> {}, log |-> <<>>], StageTypes(n),
                                path.compile, <<>>)
         IN  IF \E k \in 1..n : c.shaders[k] = 0
             THEN [program |-> 0, server |-> server,
                   log |-> c.run.log \o DeleteShaders(c.shaders)]
             ELSE LET l == linkProgramRun(server, c.shaders, path.link)
                  IN  [program |-> l.program, server |-> l.server,
                       log |-> c.run.log \o l.log \o DeleteShaders(c.shaders)]

LoadShaders(n, path) ==
    /\ LET run == IF n = 1 THEN loadComputeShaderRun(gl, path)
                  ELSE loadShaderProgramRun(gl, n, path)
       IN  /\ gl' = run.server
           /\ glLog' = run.log
           /\ last' = Call(IF n = 1 THEN "loadComputeShader" ELSE "loadShaderProgram",
                           n, <<>>, <<path>>, <<run.program>>)
    /\ UNCHANGED <<buffers, compute, renderer, process, host, context>>

\* The loader called again and again, on every path; at most MaxPrograms
\* programs are created.
NextLoader ==
    \E n \in 1..MaxStages : \E path \in LoadPaths(n) :
        /\ Cardinality(gl.programs) < MaxPrograms
        /\ LoadShaders(n, path)

SpecLoader == Init /\ [][NextLoader]_vars

(***************************************************************************)
(* C38.  On every path through loadComputeShader and loadShaderProgram     *)
(* (file unreadable, any subset of stages failing to compile, link         *)
(* failure, success) each shader object created is passed to               *)
(* glDeleteShader exactly once before the function returns, none is        *)
(* deleted that was not created, and a program that failed to link is      *)
(* deleted before 0 is returned; a program is left on the device exactly   *)
(* when it is returned.  Checked under SpecLoader.                         *)
(***************************************************************************)
\* The objects of one kind a command log leaves undeleted, and whether every
\* delete named an object that was there: [live, sound].
RECURSIVE ObjectsAfter(_, _, _, _)
ObjectsAfter(log, create, delete, acc) ==
    IF log = <<>> THEN acc
    ELSE LET c == Head(log)
             next == IF c.cmd = create
                     THEN [live |-> acc.live \cup {c.obj},
                           sound |-> acc.sound /\ c.obj \notin acc.live]
                     ELSE IF c.cmd = delete
                     THEN [live |-> acc.live \ {c.obj},
                           sound |-> acc.sound /\ c.obj \in acc.live]
                     ELSE acc
         IN  ObjectsAfter(Tail(log), create, delete, next)

LoaderOps == {"loadComputeShader", "loadShaderProgram"}

C38_LoaderLeaksNoObject ==
    [][last'.op \in LoaderOps =>
          LET shaders == ObjectsAfter(glLog', "glCreateShader", "glDeleteShader",
                                      [live |-> {}, sound |-> TRUE])
              programs == ObjectsAfter(glLog', "glCreateProgram", "glDeleteProgram",
                                       [live |-> {}, sound |-> TRUE])
              program == last'.ret[1]
          IN  /\ shaders.sound /\ shaders.live = {}
              /\ programs.sound
              /\ programs.live = (IF program = 0 THEN {} ELSE {program})
              /\ gl'.programs = gl.programs \cup programs.live
              /\ program # 0 => program \notin gl.programs]_vars

\* Three stages of which the geometry shader fails to compile: the vertex and
\* the fragment shader are deleted and no program is made.
C38_Witness ==
    /\ last.op = "loadShaderProgram"
    /\ last.index = 3
    /\ last.aux[1].compile = <<TRUE, FALSE, TRUE>>
    /\ last.ret = <<0>>
    /\ Len(SelectSeq(glLog, LAMBDA c : c.cmd = "glDeleteShader")) = 3
    /\ Len(SelectSeq(glLog, LAMBDA c : c.cmd = "glCreateProgram")) = 0

(***************************************************************************)
(* The GL context wrapper (gl_context.cpp:5-70, 100-104) over the GLFW     *)
(* library.  The library operators follow the GLFW reference: a command    *)
(* other than glfwInit and glfwTerminate issued while the library is not   *)
(* initialised raises GLFW_NOT_INITIALIZED and does nothing; glfwTerminate *)
(* destroys the windows that remain; glfwDestroyWindow on a handle that    *)
(* names no window of an initialised library is undefined.                 *)
(***************************************************************************)
MaxContexts == 2       \* GLContext objects constructed one after the other

ContextOutcomes == {"glfw_init_error", "window_error", "loader_error", "ok"}

ContextConfigs == [enableVSync : BOOLEAN, enableDebugOutput : BOOLEAN]

glfwInit(lib, succeeds) ==
    [lib EXCEPT !.initialized = @ \/ succeeds,
                !.error = IF lib.initialized \/ succeeds THEN "GLFW_NO_ERROR"
                          ELSE "GLFW_PLATFORM_ERROR"]

glfwTerminate(lib) ==
    IF ~lib.initialized THEN lib
    ELSE [lib EXCEPT !.initialized = FALSE, !.windows = {},
                     !.destroyed = @ \cup lib.windows, !.shouldClose = {},
                     !.error = "GLFW_NO_ERROR"]

glfwCreateWindow(lib, succeeds) ==
    LET window == FreshName(lib.windows \cup lib.destroyed)
    IN  IF ~lib.initialized
        THEN [window |-> 0, lib |-> [lib EXCEPT !.error = "GLFW_NOT_INITIALIZED"]]
        ELSE IF ~succeeds
        THEN [window |-> 0, lib |-> [lib EXCEPT !.error = "GLFW_PLATFORM_ERROR"]]
        ELSE [window |-> window,
              lib |-> [lib EXCEPT !.windows = @ \cup {window}, !.error = "GLFW_NO_ERROR"]]

glfwDestroyWindow(lib, window) ==
    IF ~lib.initialized THEN [lib EXCEPT !.error = "GLFW_NOT_INITIALIZED"]
    ELSE IF window \in lib.windows
    THEN [lib EXCEPT !.windows = @ \ {window}, !.destroyed = @ \cup {window},
                     !.shouldClose = @ \ {window}, !.error = "GLFW_NO_ERROR"]
    ELSE [lib EXCEPT !.error = "undefined"]

glfwSetWindowShouldClose(lib, window) ==
    IF ~lib.initialized THEN [lib EXCEPT !.error = "GLFW_NOT_INITIALIZED"]
    ELSE IF window \in lib.windows
    THEN [lib EXCEPT !.shouldClose = @ \cup {window}, !.error = "GLFW_NO_ERROR"]
    ELSE [lib EXCEPT !.error = "undefined"]

\* GLContext context; (main.cpp:81, gl_context.h:31, 74)
ContextConstruct ==
    /\ context.pc \in {"unborn", "destroyed"}
    /\ context.contexts < MaxContexts
    /\ context' = [GLContextDefault EXCEPT !.pc = "constructed",
                                          !.glfw = context.glfw,
                                          !.contexts = context.contexts + 1]
    /\ glLog' = <<>>
    /\ last' = Call("GLContext", 0, <<>>, <<>>, <<>>)
    /\ UNCHANGED <<buffers, compute, renderer, gl, process, host>>

\* The window hints of gl_context.cpp:22-28.
WindowHints(config) ==
    <<GL("glfwWindowHint", "GLFW_CONTEXT_VERSION_MAJOR", 0, 4),
      GL("glfwWindowHint", "GLFW_CONTEXT_VERSION_MINOR", 0, 6),
      GL("glfwWindowHint", "GLFW_OPENGL_PROFILE", 0, 0)>>
    \o (IF config.enableDebugOutput
        THEN <<GL("glfwWindowHint", "GLFW_OPENGL_DEBUG_CONTEXT", 0, 1)>> ELSE <<>>)

\* setupCallbacks and the debug output (gl_context.cpp:53-64, 115-120).
ContextSetup(config, window) ==
    <<GL("glfwSetWindowUserPointer", "", window, 0),
      GL("glfwSetFramebufferSizeCallback", "", window, 0),
      GL("glfwSetKeyCallback", "", window, 0)>>
    \o (IF config.enableDebugOutput
        THEN <<GL("glEnable", "GL_DEBUG_OUTPUT", 0, 0),
               GL("glEnable", "GL_DEBUG_OUTPUT_SYNCHRONOUS", 0, 0),
               GL("glDebugMessageCallback", "", 0, 0),
               GL("glDebugMessageControl", "GL_DEBUG_SEVERITY_NOTIFICATION", 0, 0)>>
        ELSE <<>>)

\* GLContext::initialize (gl_context.cpp:12-70): the object afterwards, the
\* commands issued and the value returned.
GLContextInitialize(c, config, outcome) ==
    LET lib1 == glfwInit(c.glfw, outcome # "glfw_init_error")
        made == glfwCreateWindow(lib1, outcome # "window_error")
        window == made.window
        upToWindow == <<GL("glfwInit", "", 0, 0)>> \o WindowHints(config)
                      \o <<GL("glfwCreateWindow", "", window, 0)>>
        upToLoader == upToWindow
                      \o <<GL("glfwMakeContextCurrent", "", window, 0),
                           GL("glfwSwapInterval", "", 0, IF config.enableVSync THEN 1 ELSE 0),
                           GL("gladLoadGLLoader", "", 0, 0)>>
    IN  IF outcome = "glfw_init_error"
        THEN [ret |-> FALSE, log |-> <<GL("glfwInit", "", 0, 0)>>,
              c |-> [c EXCEPT !.pc = "failed", !.m_config = config, !.glfw = lib1]]
        ELSE IF window = 0
        THEN [ret |-> FALSE, log |-> upToWindow \o <<GL("glfwTerminate", "", 0, 0)>>,
              c |-> [c EXCEPT !.pc = "failed", !.m_config = config, !.m_window = 0,
                              !.glfw = glfwTerminate(made.lib)]]
        ELSE IF outcome = "loader_error"
        THEN [ret |-> FALSE,
              log |-> upToLoader \o <<GL("glfwDestroyWindow", "", window, 0),
                                      GL("glfwTerminate", "", 0, 0)>>,
              c |-> [c EXCEPT !.pc = "failed", !.m_config = config, !.m_window = window,
                              !.glfw = glfwTerminate(glfwDestroyWindow(made.lib, window))]]
        ELSE [ret |-> TRUE, log |-> upToLoader \o ContextSetup(config, window),
              c |-> [c EXCEPT !.pc = "initialized", !.m_config = config,
                              !.m_window = window, !.glfw = made.lib]]

ContextInitialize(config, outcome) ==
    /\ context.pc = "constructed"
    /\ LET r == GLContextInitialize(context, config, outcome)
       IN  /\ context' = [r.c EXCEPT !.calls = @ \o r.log]
           /\ glLog' = r.log
           /\ last' = Call("contextInitialize", 0, <<>>, <<config, outcome>>, <<r.ret>>)
    /\ UNCHANGED <<buffers, compute, renderer, gl, process, host>>

\* GLContext::requestClose (gl_context.cpp:100-104)
ContextRequestClose ==
    /\ context.pc = "initialized"
    /\ LET log == IF context.m_window # 0
                  THEN <<GL("glfwSetWindowShouldClose", "", context.m_window, 1)>>
                  ELSE <<>>
       IN  /\ context' = [context EXCEPT
                  !.glfw = IF context.m_window # 0
                           THEN glfwSetWindowShouldClose(@, context.m_window) ELSE @,
                  !.calls = @ \o log]
           /\ glLog' = log
    /\ last' = Call("requestClose", 0, <<>>, <<>>, <<>>)
    /\ UNCHANGED <<buffers, compute, renderer, gl, process, host>>

\* GLContext::~GLContext (gl_context.cpp:5-10), run when main returns
\* (main.cpp:90, 371) or the object otherwise goes out of scope.
ContextDestroy ==
    /\ context.pc \in {"constructed", "initialized", "failed"}
    /\ LET log == (IF context.m_window # 0
                   THEN <<GL("glfwDestroyWindow", "", context.m_window, 0)>> ELSE <<>>)
                  \o <<GL("glfwTerminate", "", 0, 0)>>
           lib1 == IF context.m_window # 0
                   THEN glfwDestroyWindow(context.glfw, context.m_window)
                   ELSE context.glfw
       IN  /\ context' = [context EXCEPT !.pc = "destroyed",
                                         !.glfw = [glfwTerminate(lib1) EXCEPT
                                                      !.error = lib1.error],
                                         !.calls = @ \o log]
           /\ glLog' = log
           /\ process' \in (IF lib1.error = "undefined"
                            THEN {"aborted", process} ELSE {process})
    /\ last' = Call("~GLContext", 0, <<>>, <<>>, <<>>)
    /\ UNCHANGED <<buffers, compute, renderer, gl, host>>

NextContext ==
    \/ ContextConstruct
    \/ \E config \in ContextConfigs : \E outcome \in ContextOutcomes :
           ContextInitialize(config, outcome)
    \/ /\ context.m_window \notin context.glfw.shouldClose   \* asked once
       /\ ContextRequestClose
    \/ ContextDestroy

SpecContext == Init /\ [][NextContext]_vars

(***************************************************************************)
(* C39.  On every path through GLContext::initialize (GLFW init failure,   *)
(* window creation failure, GL loader failure, success) followed by the    *)
(* destructor, glfwDestroyWindow is called at most once for the created    *)
(* window and never on a window that has already been destroyed.  Checked  *)
(* under SpecContext, where it fails: after a GL loader failure            *)
(* initialize has destroyed the window and kept its handle in m_window,    *)
(* and the destructor passes the handle to glfwDestroyWindow again.        *)
(***************************************************************************)
\* The positions in the object's commands at which a window is destroyed.
DestroyCalls(calls, window) ==
    {i \in DOMAIN calls : calls[i].cmd = "glfwDestroyWindow" /\ calls[i].obj = window}

C39_WindowDestroyedAtMostOnce ==
    \A window \in context.glfw.windows \cup context.glfw.destroyed :
        Cardinality(DestroyCalls(context.calls, window)) <= 1

\* What does hold: on the three other paths the window is destroyed at most
\* once, and the second call of the loader failure path reaches a library
\* that is already terminated, which rejects it with GLFW_NOT_INITIALIZED
\* and touches no window.
C39_SecondDestroyIsRejected ==
    /\ \A window \in context.glfw.windows \cup context.glfw.destroyed :
           Cardinality(DestroyCalls(context.calls, window)) > 1 =>
               /\ last.op = "~GLContext"
               /\ context.glfw.error = "GLFW_NOT_INITIALIZED"
               /\ \E i \in DOMAIN context.calls :
                      context.calls[i].cmd = "gladLoadGLLoader"
    /\ context.glfw.error # "undefined"
    /\ process = "running"

====
